---- MODULE Spec2Model ----
(***************************************************************************)
(* Verification model of the asynchronous primitives of                    *)
(* src/js_polyfills_guide.js: the MyPromise class (section 3.1), the      *)
(* aggregators Promise.myAll / Promise.myAllSettled (3.2, 3.4) and the    *)
(* worker-pool schedulers mapLimitOptimized (4) and parallelLimitOptimized *)
(* (9), the rate-limiting wrappers debounce and throttle (5, 6) and the   *)
(* retry functions (14).                                                   *)
(*                                                                         *)
(* The module holds one state machine per component.  Each has its own    *)
(* variables, initial predicate, next-state relation and specification;   *)
(* the variables of the other components stay at their initial value.     *)
(***************************************************************************)
EXTENDS Integers, Sequences, FiniteSets, TLC

\* ---- MyPromise ----
VARIABLES promises, timers, returned
\* ---- worker-pool schedulers, Promise.myAll, Promise.myAllSettled ----
VARIABLES fn, limit, tasks, iterator, workers, results, completed,
    aggregate, history

\* ---- one scheduler called twice on the same tasks ----
\* the outcome of the first call
VARIABLES reference
\* ---- debounce, debounceAdvanced, throttle, throttleAdvanced ----
\* the wrapper under test and its options, Date.now(), the variables of
\* the wrapper's closure scope, the host's timers, and the history of the
\* operations on the wrapper and of the invocations of func
VARIABLES wrapper, now, scope, hostTimers, log
\* ---- retry, retryWithBackoff, retryWithCondition, retryAdvanced ----
\* the function called and its options, the frame of the async function
\* (where it is suspended, attempt, delay), the promises and timers of the
\* host it waits for, the abort signal, the promise the call returned, and
\* the history of the producer's invocations, the errors caught and the
\* waits
VARIABLES options, frame, host, signal, outcome, trace
\* ---- Promise.myRace ----
\* the argument (its promises, as they are when myRace is called and as
\* they settle), the promises `.then(resolve)` returned, the host's queue
\* of promise jobs, the promise myRace returned, and the order in which the
\* inputs settled
VARIABLES inputs, chained, microtasks, raced, arrival
\* ---- LRUCache ----
\* this.capacity, this.cache (the Map's entries in insertion order), the
\* keys in the order of their last use, and what the last operation did
VARIABLES capacity, cache, recent, lastOp
\* ---- EventEmitter ----
\* this.events[event] for one event (no entry: the empty sequence), what
\* each listener function does when called, and the history of the
\* registrations and of the emit calls
VARIABLES events, listeners, emitted
\* ---- memoizeAsync ----
\* the closure of the memoized function (its cache and pending Maps), the
\* invocations of fn made so far, and the history of the calls
VARIABLES memoized, invocations, requests
\* ---- mySetInterval / mySetIntervalAdvanced ----
\* the closure of the handle returned, the host's armed timeouts, the
\* host's clock, and the history of the handle's use
VARIABLES handle, timeouts, clock, ticks

pvars == <<promises, timers, returned>>
svars == <<fn, limit, tasks, iterator, workers, results, completed,
    aggregate, history>>
evars == <<reference>>
rvars == <<wrapper, now, scope, hostTimers, log>>
yvars == <<options, frame, host, signal, outcome, trace>>
mvars == <<inputs, chained, microtasks, raced, arrival>>
\* the smaller utilities
lvars == <<capacity, cache, recent, lastOp>>
tvars == <<events, listeners, emitted>>
zvars == <<memoized, invocations, requests>>
ivars == <<handle, timeouts, clock, ticks>>
xvars == <<mvars, lvars, tvars, zvars, ivars>>
vars == <<pvars, svars, evars, rvars, yvars, xvars>>
\* what the steps of one component leave unchanged
notPromise == <<svars, evars, rvars, yvars, xvars>>
notSched == <<pvars, evars, rvars, yvars, xvars>>
notRate == <<pvars, svars, evars, yvars, xvars>>
notRetry == <<pvars, svars, evars, rvars, xvars>>
core == <<pvars, svars, evars, rvars, yvars>>
notRace == <<core, lvars, tvars, zvars, ivars>>
notCache == <<core, mvars, tvars, zvars, ivars>>
notEmitter == <<core, mvars, lvars, zvars, ivars>>
notMemo == <<core, mvars, lvars, tvars, ivars>>
notInterval == <<core, mvars, lvars, tvars, zvars>>

\* ------------------------------------------------------------------------
\* Bounds of the model
\* ------------------------------------------------------------------------
\* the number of MyPromise objects the caller may create in one behaviour,
\* by `new MyPromise` or by calling then (the promises resolvePromise
\* creates internally by x.then(resolve, reject) are not counted)
MaxPromises == 3
\* the number of those the caller may create by `new MyPromise`
MaxRoots == 1
\* the longest task list handed to a scheduler
MaxTasks == 4
\* the largest concurrency limit handed to a scheduler
MaxLimit == 3
\* the milliseconds a behaviour of a rate-limiting wrapper lasts
MaxTime == 6
\* the largest delay a wrapper is built with
MaxDelay == 3
\* the number of operations (calls, cancel, flush) on a wrapper
MaxOps == 3
\* the largest maxAttempts a retry function is called with
MaxAttempts == 3
\* the largest initialDelay (delay) and maxDelay a retry function is called
\* with
MaxWait == 3
\* the largest backoffFactor a retry function is called with
MaxFactor == 2
\* the longest array handed to Promise.myRace
MaxInputs == 3
\* the number of different keys used on an LRUCache
MaxKeys == 3
\* the largest capacity an LRUCache is built with
MaxCapacity == 2
\* the number of listener functions, of on()/once() calls and of emit()
\* calls made from outside a listener
MaxListeners == 2
MaxRegistrations == 3
MaxEmits == 3
\* the number of different argument lists (keys) and of calls of a
\* memoized function
MaxArgs == 2
MaxCalls == 4
\* the longest interval delay, the last instant of the host's clock, and
\* the number of clear/pause/resume calls made from outside the callback
MaxPeriod == 2
MaxClock == 4
MaxHandleOps == 3

\* ------------------------------------------------------------------------
\* JavaScript values
\* ------------------------------------------------------------------------
Plain(v) == [t |-> "plain", v |-> v, id |-> 0]
PromiseRef(id) == [t |-> "promise", v |-> "", id |-> id]
Undefined == [t |-> "undefined", v |-> "", id |-> 0]
\* new TypeError('Chaining cycle detected')
ChainingCycle == [t |-> "TypeError", v |-> "", id |-> 0]
\* The plain values the caller settles promises with.  MyPromise never
\* inspects a plain value, so two distinct ones are enough to tell a first
\* settlement from a later one.
PlainValues == {Plain("a"), Plain("b")}

\* ------------------------------------------------------------------------
\* MyPromise
\* ------------------------------------------------------------------------
\* The functions a `then` call can receive.  "none" is a non-function
\* argument (then replaces it by the default), "return"/"throw" a function
\* that returns/throws the plain value "h", "returnPromise" a function that
\* returns a promise the caller holds in a variable: the promise this
\* then call itself produces (arg 0) or the one the caller creates next
\* (arg 1; undefined while it does not exist), "resolve"/"reject" the
\* executor functions of the promise with the given id (resolvePromise
\* passes them to x.then).  "finally" is either arrow function `finally`
\* passes to then, for the onFinally numbered arg in OnFinally;
\* "value"/"throwReason" are the arrow functions () => value and
\* () => { throw reason; } created by the "finally" handler of the then
\* call that produced promise arg.
Handler(kind, arg) == [kind |-> kind, arg |-> arg]
NoHandler == Handler("none", 0)
\* What the onFinally callbacks do: return the plain value "f", throw it,
\* or return MyPromise.reject("f").
OnFinally == <<"return", "throw", "returnRejected">>

\* The executors the caller passes to `new MyPromise`: one settling call
\* at most, then possibly a throw.  NoExecutor makes no call and returns.
Executor(call, arg, throws) == [call |-> call, arg |-> arg, throws |-> throws]
NoExecutor == Executor("none", Undefined, Undefined)

\* the state after the field initialisers of the constructor
NewMyPromise(src, onF, onR, internal) ==
    [ state |-> "pending", value |-> Undefined, reason |-> Undefined,
      onFulfilledCallbacks |-> <<>>, onRejectedCallbacks |-> <<>>,
      \* the closure environment of the `then` call that built the promise
      src |-> src, onFulfilled |-> onF, onRejected |-> onR,
      \* history: invocations of that call's handlers, the first settling
      \* call made through the executor functions, the promise adopted
      calls |-> 0, callSide |-> "none", callArg |-> Undefined,
      callSync |-> FALSE,
      first |-> [side |-> "none", arg |-> Undefined, n |-> 0],
      adopts |-> 0, internal |-> internal,
      \* the executor given to the constructor
      executor |-> NoExecutor ]

\* the run-time state the operations below transform: the heap of promises,
\* the host's timer queue and the depth of resolve/reject/then frames on
\* the call stack
World ==
    [promises |-> promises, timers |-> timers, returned |-> returned,
     depth |-> 0]
Enter(w) == [w EXCEPT !.depth = @ + 1]
Leave(w) == [w EXCEPT !.depth = @ - 1]

\* the arrow function `then` hands to setTimeout / wraps in a callback
Closure(self, p2, side) == [self |-> self, p2 |-> p2, side |-> side]

RECURSIVE RunTimer(_, _)
RECURSIVE RunCallbacks(_, _)

\* a host that runs the callback at once instead of queueing it
SetTimeoutInline(w, closure) == RunTimer(w, closure)
\* setTimeout(closure, 0): the closure joins the timer queue
SetTimeout(w, closure) == [w EXCEPT !.timers = Append(@, closure)]

\* callbacks.forEach(fn => fn(value)); each fn only calls setTimeout
RunCallbacks(w, callbacks) ==
    IF callbacks = <<>> THEN w
    ELSE RunCallbacks(SetTimeout(w, Head(callbacks)), Tail(callbacks))

\* resolve that settles again when the promise is already settled
ResolveUnguarded(w, p, value) ==
    Leave(RunCallbacks(
        [Enter(w) EXCEPT !.promises[p].state = "fulfilled",
                         !.promises[p].value = value],
        w.promises[p].onFulfilledCallbacks))
\* the executor's resolve function
Resolve(w, p, value) ==
    IF w.promises[p].state = "pending"
    THEN Leave(RunCallbacks(
            [Enter(w) EXCEPT !.promises[p].state = "fulfilled",
                             !.promises[p].value = value],
            w.promises[p].onFulfilledCallbacks))
    ELSE w

\* the executor's reject function
Reject(w, p, reason) ==
    IF w.promises[p].state = "pending"
    THEN Leave(RunCallbacks(
            [Enter(w) EXCEPT !.promises[p].state = "rejected",
                             !.promises[p].reason = reason],
            w.promises[p].onRejectedCallbacks))
    ELSE w

\* the try/catch around the executor with a catch clause that settles
\* the promise whatever its state
RunExecutorCatchOverrides(w, p, executor) ==
    LET w1 == CASE executor.call = "resolve" -> Resolve(w, p, executor.arg)
                [] executor.call = "reject" -> Reject(w, p, executor.arg)
                [] OTHER -> w
    IN IF executor.throws = Undefined THEN w1
       ELSE [w1 EXCEPT !.promises[p].state = "rejected",
                       !.promises[p].reason = executor.throws]
\* try { executor(resolve, reject); } catch (error) { reject(error); }
RunExecutor(w, p, executor) ==
    LET w1 == CASE executor.call = "resolve" -> Resolve(w, p, executor.arg)
                [] executor.call = "reject" -> Reject(w, p, executor.arg)
                [] OTHER -> w
    IN IF executor.throws = Undefined THEN w1
       ELSE Reject(w1, p, executor.throws)

\* history: the first call of resolve or reject the constructor sees,
\* made by the executor or by the catch clause
FirstOf(executor) ==
    CASE executor.call = "resolve" ->
           [side |-> "F", arg |-> executor.arg,
            n |-> IF executor.throws = Undefined THEN 1 ELSE 2]
      [] executor.call = "reject" ->
           [side |-> "R", arg |-> executor.arg,
            n |-> IF executor.throws = Undefined THEN 1 ELSE 2]
      [] executor.throws # Undefined ->
           [side |-> "R", arg |-> executor.throws, n |-> 1]
      [] OTHER -> [side |-> "none", arg |-> Undefined, n |-> 0]

\* new MyPromise(executor); the new promise is the newest one
Constructor(w, executor, internal) ==
    LET p == Len(w.promises) + 1
        w1 == [w EXCEPT !.promises = Append(@,
                 [NewMyPromise(0, NoHandler, NoHandler, internal) EXCEPT
                    !.executor = executor, !.first = FirstOf(executor)])]
    IN RunExecutor(w1, p, executor)

\* then that registers a continuation only while the promise is pending
ThenPendingOnly(w, self, onF, onR) ==
    LET p2 == Len(w.promises) + 1
        w1 == [Enter(w) EXCEPT
                 !.promises = Append(@,
                     NewMyPromise(self, onF, onR,
                         onF.kind \in {"resolve", "value", "throwReason"}))]
        w2 == IF w.promises[self].state = "pending"
              THEN [w1 EXCEPT
                        !.promises[self].onFulfilledCallbacks =
                            Append(@, Closure(self, p2, "F")),
                        !.promises[self].onRejectedCallbacks =
                            Append(@, Closure(self, p2, "R"))]
              ELSE w1
    IN Leave(w2)
\* MyPromise.prototype.then; the promise it returns is the newest one.
\* The promises of the then calls the class makes itself are marked
\* internal: the caller holds no reference to them.
Then(w, self, onF, onR) ==
    LET p2 == Len(w.promises) + 1
        w1 == [Enter(w) EXCEPT
                 !.promises = Append(@,
                     NewMyPromise(self, onF, onR,
                         onF.kind \in {"resolve", "value", "throwReason"}))]
        w2 == CASE w.promises[self].state = "fulfilled" ->
                     SetTimeout(w1, Closure(self, p2, "F"))
                [] w.promises[self].state = "rejected" ->
                     SetTimeout(w1, Closure(self, p2, "R"))
                [] OTHER ->
                     [w1 EXCEPT
                        !.promises[self].onFulfilledCallbacks =
                            Append(@, Closure(self, p2, "F")),
                        !.promises[self].onRejectedCallbacks =
                            Append(@, Closure(self, p2, "R"))]
    IN Leave(w2)

\* resolvePromise without the promise2 === x test
ResolvePromiseNoCycleCheck(w, p2, x) ==
    IF x.t = "promise"
    THEN Then([w EXCEPT !.promises[p2].adopts = x.id], x.id,
              Handler("resolve", p2), Handler("reject", p2))
    ELSE Resolve(w, p2, x)
\* resolvePromise(promise2, x, resolve, reject)
ResolvePromise(w, p2, x) ==
    IF x = PromiseRef(p2) THEN Reject(w, p2, ChainingCycle)
    ELSE IF x.t = "promise"
    THEN Then([w EXCEPT !.promises[p2].adopts = x.id], x.id,
              Handler("resolve", p2), Handler("reject", p2))
    ELSE Resolve(w, p2, x)

\* static resolve that wraps every value in a new promise
StaticResolveAlwaysWraps(w, value, internal) ==
    [w |-> Constructor(w, Executor("resolve", value, Undefined), internal),
     x |-> PromiseRef(Len(w.promises) + 1)]
\* MyPromise.resolve(value): the world after the call and the promise
\* returned
StaticResolve(w, value, internal) ==
    IF value.t = "promise" THEN [w |-> w, x |-> value]
    ELSE [w |-> Constructor(w, Executor("resolve", value, Undefined),
                            internal),
          x |-> PromiseRef(Len(w.promises) + 1)]
\* MyPromise.reject(reason)
StaticReject(w, reason, internal) ==
    [w |-> Constructor(w, Executor("reject", reason, Undefined), internal),
     x |-> PromiseRef(Len(w.promises) + 1)]

\* the promises the caller holds a reference to, in creation order
RECURSIVE CallerPromises(_)
CallerPromises(ps) ==
    IF ps = <<>> THEN <<>>
    ELSE LET front == CallerPromises(SubSeq(ps, 1, Len(ps) - 1))
         IN IF ps[Len(ps)].internal THEN front
            ELSE Append(front, Len(ps))

\* the value of the caller's variable that a handler of the then call that
\* produced p2 returns: the promise created d places after p2
Variable(ps, p2, d) ==
    LET held == CallerPromises(ps)
        k == (CHOOSE j \in 1..Len(held) : held[j] = p2) + d
    IN IF k \in 1..Len(held) THEN PromiseRef(held[k]) ELSE Undefined

\* What calling handler h of the then call that produced p2 with argument
\* arg does: the world after the call
\* and either the value returned or the value thrown.
Invoke(w, h, p2, side, arg) ==
    CASE h.kind = "none" ->
           \* value => value   and   reason => { throw reason; }
           [w |-> w, threw |-> (side = "R"), x |-> arg]
      [] h.kind = "return" -> [w |-> w, threw |-> FALSE, x |-> Plain("h")]
      [] h.kind = "throw" -> [w |-> w, threw |-> TRUE, x |-> Plain("h")]
      [] h.kind = "returnPromise" ->
           [w |-> w, threw |-> FALSE, x |-> Variable(w.promises, p2, h.arg)]
      [] h.kind = "resolve" ->
           [w |-> Resolve(w, h.arg, arg), threw |-> FALSE, x |-> Undefined]
      [] h.kind = "reject" ->
           [w |-> Reject(w, h.arg, arg), threw |-> FALSE, x |-> Undefined]
      [] h.kind = "value" ->
           [w |-> w, threw |-> FALSE,
            x |-> w.promises[w.promises[h.arg].src].value]
      [] h.kind = "throwReason" ->
           [w |-> w, threw |-> TRUE,
            x |-> w.promises[w.promises[h.arg].src].reason]
      [] h.kind = "finally" ->
           \* MyPromise.resolve(onFinally()).then(() => value)   or
           \* MyPromise.resolve(onFinally()).then(() => { throw reason; })
           IF OnFinally[h.arg] = "throw"
           THEN [w |-> w, threw |-> TRUE, x |-> Plain("f")]
           ELSE LET r == IF OnFinally[h.arg] = "return"
                         THEN [w |-> w, x |-> Plain("f")]
                         ELSE StaticReject(w, Plain("f"), TRUE)
                    q == StaticResolve(r.w, r.x, TRUE)
                IN [w |-> Then(q.w, q.x.id,
                               Handler(IF side = "F" THEN "value"
                                       ELSE "throwReason", p2),
                               NoHandler),
                    threw |-> FALSE,
                    x |-> PromiseRef(Len(q.w.promises) + 1)]

\* a continuation that keeps the chain rejected whatever onRejected
\* returns
RunTimerKeepsRejection(w, closure) ==
    LET self == closure.self
        p2 == closure.p2
        side == closure.side
        arg == IF side = "F" THEN w.promises[self].value
               ELSE w.promises[self].reason
        h == IF side = "F" THEN w.promises[p2].onFulfilled
             ELSE w.promises[p2].onRejected
        w1 == [w EXCEPT !.promises[p2].calls = @ + 1,
                        !.promises[p2].callSide = side,
                        !.promises[p2].callArg = arg,
                        !.promises[p2].callSync = (@ \/ w.depth > 0)]
        r == Invoke(w1, h, p2, side, arg)
    IN IF r.threw THEN Reject(r.w, p2, r.x)
       ELSE IF side = "R" THEN Reject(r.w, p2, arg)
       ELSE ResolvePromise(r.w, p2, r.x)
\* the body of the arrow function given to setTimeout in `then`
RunTimer(w, closure) ==
    LET self == closure.self
        p2 == closure.p2
        side == closure.side
        arg == IF side = "F" THEN w.promises[self].value
               ELSE w.promises[self].reason
        h == IF side = "F" THEN w.promises[p2].onFulfilled
             ELSE w.promises[p2].onRejected
        w1 == [w EXCEPT !.promises[p2].calls = @ + 1,
                        !.promises[p2].callSide = side,
                        !.promises[p2].callArg = arg,
                        !.promises[p2].callSync = (@ \/ w.depth > 0)]
        r == Invoke(w1, h, p2, side, arg)
    IN IF r.threw THEN Reject(r.w, p2, r.x)
       ELSE ResolvePromise(r.w, p2, r.x)

Known == {p \in 1..Len(promises) : ~promises[p].internal}
Roots == {p \in Known : promises[p].src = 0}
Settled(p) == promises[p].state # "pending"

\* The argument pairs <<onFulfilled, onRejected>> the caller passes to
\* then.  Each kind of handler occurs on each side it can occur on; only
\* the handler of the side the promise settles on is ever used.
ThenArguments ==
    {<<NoHandler, NoHandler>>,
     <<Handler("return", 0), Handler("throw", 0)>>,
     <<Handler("throw", 0), Handler("return", 0)>>}
    \cup {<<Handler("returnPromise", d), NoHandler>> : d \in {0, 1}}

\* the values the caller passes to the resolve function of p: a plain
\* value, p itself, or the promise it created next after p
ResolveArguments(p) ==
    PlainValues \cup
        ({Variable(promises, p, d) : d \in {0, 1}} \ {Undefined})

Commit(w) == /\ promises' = w.promises
             /\ timers' = w.timers
             /\ returned' = w.returned
             /\ UNCHANGED notPromise

\* new MyPromise(executor) with an executor that keeps resolve and reject
\* for later calls
Construct ==
    /\ Cardinality(Known) < MaxPromises
    /\ Cardinality(Roots) < MaxRoots
    /\ promises' = Append(promises,
                          NewMyPromise(0, NoHandler, NoHandler, FALSE))
    /\ UNCHANGED <<timers, returned, notPromise>>

\* history: the first call of an executor function of p, and whether
\* there has been more than one
RecordFirst(w, p, side, arg) ==
    IF promises[p].first.side = "none"
    THEN [w EXCEPT !.promises[p].first =
                       [side |-> side, arg |-> arg, n |-> 1]]
    ELSE [w EXCEPT !.promises[p].first.n = 2]

\* the caller calls the resolve function of a promise it constructed
CallResolve(p, value) ==
    /\ p \in Roots
    /\ Commit(RecordFirst(Resolve(World, p, value), p, "F", value))

\* the caller calls the reject function of a promise it constructed
CallReject(p, reason) ==
    /\ p \in Roots
    /\ Commit(RecordFirst(Reject(World, p, reason), p, "R", reason))

\* the caller calls p.then(onFulfilled, onRejected)
CallThen(p, onF, onR) ==
    /\ p \in Known
    /\ Cardinality(Known) < MaxPromises
    /\ Commit(Then(World, p, onF, onR))

\* The executors of ConstructSettling: each settling call with and without
\* a throw after it, and a throw alone.
Executors ==
    {Executor(call, Plain("a"), throws) :
        call \in {"resolve", "reject"}, throws \in {Undefined, Plain("b")}}
    \cup {Executor("none", Undefined, Plain("b"))}

\* new MyPromise(executor) with an executor that settles the promise or
\* throws while the constructor runs
ConstructSettling(executor) ==
    /\ Cardinality(Known) < MaxPromises
    /\ Cardinality(Roots) < MaxRoots
    /\ Commit(Constructor(World, executor, FALSE))

\* the caller calls p.catch(onRejected): this.then(null, onRejected)
CallCatch(p, onR) ==
    /\ p \in Known
    /\ Cardinality(Known) < MaxPromises
    /\ Commit(Then(World, p, NoHandler, onR))

\* the caller calls p.finally(onFinally)
CallFinally(p, f) ==
    /\ p \in Known
    /\ Cardinality(Known) < MaxPromises
    /\ Commit(Then(World, p, Handler("finally", f), Handler("finally", f)))

\* the result of the last call of a static method
NoneReturned == [fn |-> "none", arg |-> Undefined, x |-> Undefined]
\* the values the caller passes to MyPromise.resolve
StaticArguments == {Plain("a")} \cup {PromiseRef(p) : p \in Known}

\* the caller calls MyPromise.resolve(value)
CallStaticResolve(value) ==
    /\ value.t = "promise" \/
          (Cardinality(Known) < MaxPromises /\ Cardinality(Roots) < MaxRoots)
    /\ LET r == StaticResolve(World, value, FALSE)
       IN Commit([r.w EXCEPT !.returned =
                     [fn |-> "resolve", arg |-> value, x |-> r.x]])

\* the caller calls MyPromise.reject(reason)
CallStaticReject(reason) ==
    /\ Cardinality(Known) < MaxPromises
    /\ Cardinality(Roots) < MaxRoots
    /\ LET r == StaticReject(World, reason, FALSE)
       IN Commit([r.w EXCEPT !.returned =
                     [fn |-> "reject", arg |-> reason, x |-> r.x]])

\* the host runs the oldest timer callback
FireTimer ==
    /\ timers # <<>>
    /\ LET w == RunTimer([World EXCEPT !.timers = Tail(@)], Head(timers))
       IN Commit(w)

PromiseInit ==
    /\ promises = <<>>
    /\ timers = <<>>
    /\ returned = NoneReturned

PromiseNext ==
    \/ Construct
    \/ \E p \in Roots : \E value \in ResolveArguments(p) :
          CallResolve(p, value)
    \/ \E p \in Roots : \E reason \in PlainValues :
          CallReject(p, reason)
    \/ \E p \in Known : \E args \in ThenArguments :
          CallThen(p, args[1], args[2])
    \/ FireTimer

\* The caller builds promises that are settled when it gets them, with
\* the constructor or the static methods, and chains on them.
PromiseSettledNext ==
    \/ \E executor \in Executors : ConstructSettling(executor)
    \/ \E value \in StaticArguments : CallStaticResolve(value)
    \/ CallStaticReject(Plain("a"))
    \/ \E p \in Known : CallThen(p, NoHandler, NoHandler)
    \/ \E p \in Known : CallCatch(p, Handler("return", 0))
    \/ FireTimer

\* The caller chains then without handlers, catch and finally on a promise
\* it settles when it likes.
PromiseChainNext ==
    \/ Construct
    \/ \E p \in Roots : \E value \in ResolveArguments(p) :
          CallResolve(p, value)
    \/ \E p \in Roots : \E reason \in PlainValues :
          CallReject(p, reason)
    \/ \E p \in Known : CallThen(p, NoHandler, NoHandler)
    \/ \E p \in Known : CallCatch(p, Handler("return", 0))
    \/ \E p \in Known : \E f \in 1..Len(OnFinally) : CallFinally(p, f)
    \/ FireTimer

\* ------------------------------------------------------------------------
\* mapLimitOptimized, parallelLimitOptimized, Promise.myAll,
\* Promise.myAllSettled
\* ------------------------------------------------------------------------
\* Task i fulfils with a value that names it, or with an object of the
\* shape { error: e }, or rejects with an error that names it.
Value(i) == [t |-> "value", v |-> i]
Error(i) == [t |-> "error", v |-> i]
\* the object literal { error }
ErrorObject(e) ==
    IF e.t = "error" THEN [t |-> "{error}", v |-> e.v]
    ELSE [t |-> "{error:" \o e.t \o "}", v |-> e.v]
\* evaluating the undeclared identifier onProgress
ReferenceError == [t |-> "ReferenceError", v |-> 0]
None == [t |-> "none", v |-> 0]

\* entries of a results array: an empty slot, a value stored as it is, or
\* the records { status: 'fulfilled', value } / { status: 'rejected', reason }
Hole == [tag |-> "hole", t |-> "none", v |-> 0]
Raw(x) == [tag |-> "raw", t |-> x.t, v |-> x.v]
Fulfilled(x) == [tag |-> "fulfilled", t |-> x.t, v |-> x.v]
Rejected(x) == [tag |-> "rejected", t |-> x.t, v |-> x.v]

WorkerPools == {"mapLimitOptimized", "parallelLimitOptimized"}
Aggregators == {"myAll", "myAllSettled"}
N == Len(tasks)
Min(a, b) == IF a <= b THEN a ELSE b

\* history: the task indices in the order their promises settled, and per
\* task the number of producer invocations and of writes to its slot
Started(h, i) == [h EXCEPT !.starts[i] = @ + 1]
Written(h, i) == [h EXCEPT !.writes[i] = @ + 1]

\* a pool with one worker per task, whatever the limit
WorkerCountUnbounded(lim, n) == n
\* a pool with one worker too few
WorkerCountOneLess(lim, n) == Min(lim, n) - 1
\* a pool of `limit` workers, however short the task list
WorkerCountLimit(lim, n) == lim
\* Math.min(limit, array.length)
WorkerCount(lim, n) == Min(lim, n)

\* results.push(value): the next free slot instead of the task's index
SlotByCompletion(res, index) ==
    Cardinality({i \in 1..Len(res) : res[i] # Hole}) + 1
\* the slot `results[index] = ...` writes
Slot(res, index) == index

\* The run-time state of one scheduler call, as the worker code transforms
\* it.  A worker is "awaiting" task `index`, "done" (its loop ended) or
\* "rejected" (its async function threw `error`).
Run ==
    [tasks |-> tasks, iterator |-> iterator, workers |-> workers,
     results |-> results, completed |-> completed, history |-> history]

\* One turn of `for (const [index, item] of iterator)` in worker k: the
\* shared iterator yields the next index and the body runs up to its
\* await, which invokes the producer; or the iterator is exhausted and the
\* worker's promise fulfils.
ClaimNext(r, k) ==
    IF r.iterator <= Len(r.tasks)
    THEN [r EXCEPT !.iterator = @ + 1,
                   !.tasks[r.iterator].state = "running",
                   !.history = Started(@, r.iterator),
                   !.workers[k] = [state |-> "awaiting",
                                   index |-> r.iterator, error |-> None]]
    ELSE [r EXCEPT !.workers[k] = [state |-> "done", index |-> 0,
                                   error |-> None]]

\* .map(() => worker()): the workers start one after the other, each
\* running synchronously up to its first await
RECURSIVE StartWorkers(_, _, _)
StartWorkers(r, k, count) ==
    IF k > count THEN r
    ELSE StartWorkers(
           ClaimNext([r EXCEPT !.workers = Append(@,
                         [state |-> "starting", index |-> 0, error |-> None])],
                     k),
           k + 1, count)

\* a worker that handles one item and returns (`if` where the loop is)
MapWorkerResumeOnce(r, k, settled, x) ==
    LET index == r.workers[k].index
    IN IF settled = "fulfilled"
       THEN [r EXCEPT !.results[Slot(r.results, index)] = Raw(x),
                      !.history = Written(@, Slot(r.results, index)),
                      !.workers[k] = [state |-> "done", index |-> 0,
                                      error |-> None]]
       ELSE [r EXCEPT !.workers[k] = [state |-> "rejected", index |-> 0,
                                      error |-> x]]
\* a worker whose failure also ends the shared iterator
MapWorkerResumeCancels(r, k, settled, x) ==
    LET index == r.workers[k].index
    IN IF settled = "fulfilled"
       THEN ClaimNext(
              [r EXCEPT !.results[Slot(r.results, index)] = Raw(x),
                        !.history = Written(@, Slot(r.results, index))],
              k)
       ELSE [r EXCEPT !.iterator = Len(r.tasks) + 1,
                      !.workers[k] = [state |-> "rejected", index |-> 0,
                                      error |-> x]]
\* mapLimitOptimized's worker resumes from `await asyncFn(item, index)`
MapWorkerResume(r, k, settled, x) ==
    LET index == r.workers[k].index
    IN IF settled = "fulfilled"
       THEN ClaimNext(
              [r EXCEPT !.results[Slot(r.results, index)] = Raw(x),
                        !.history = Written(@, Slot(r.results, index))],
              k)
       ELSE \* the await throws: the loop is left and the worker rejects
            [r EXCEPT !.workers[k] = [state |-> "rejected", index |-> 0,
                                      error |-> x]]

\* parallelLimitOptimized's worker resumes from `await task()`.  The
\* identifier onProgress is declared nowhere in the function's scope, so
\* `if (onProgress)` throws a ReferenceError: in the try block that sends
\* control to the catch block, and in the catch block it ends the worker.
ParallelWorkerResume(r, k, settled, x) ==
    LET index == r.workers[k].index
        try == IF settled = "fulfilled"
               THEN [thrown |-> ReferenceError,
                     r |-> [r EXCEPT
                              !.results[Slot(r.results, index)] = Raw(x),
                              !.history = Written(@, Slot(r.results, index)),
                              !.completed = @ + 1]]
               ELSE [thrown |-> x, r |-> r]
        r1 == try.r
        catch == [r1 EXCEPT
                    !.results[Slot(r1.results, index)] =
                        Raw(ErrorObject(try.thrown)),
                    !.history = Written(@, Slot(r1.results, index)),
                    !.completed = @ + 1]
    IN [catch EXCEPT !.workers[k] = [state |-> "rejected", index |-> 0,
                                     error |-> ReferenceError]]

\* Promise.all that waits for every input to settle before it rejects
PromiseAllWaiting(agg, ws, res, k) ==
    IF agg.state # "pending" THEN agg
    ELSE IF \E j \in 1..Len(ws) : ws[j].state = "awaiting" THEN agg
    ELSE IF \E j \in 1..Len(ws) : ws[j].state = "rejected"
    THEN [state |-> "rejected", value |-> <<>>,
          error |-> ws[CHOOSE j \in 1..Len(ws) : ws[j].state = "rejected"].error]
    ELSE [state |-> "fulfilled", value |-> res, error |-> None]
\* `await Promise.all(workers); return results;` after worker k settled:
\* the call's promise rejects with the first worker rejection and fulfils
\* with the results array once every worker is done
PromiseAll(agg, ws, res, k) ==
    IF agg.state # "pending" THEN agg
    ELSE IF k # 0 /\ ws[k].state = "rejected"
    THEN [state |-> "rejected", value |-> <<>>, error |-> ws[k].error]
    ELSE IF \A j \in 1..Len(ws) : ws[j].state = "done"
    THEN [state |-> "fulfilled", value |-> res, error |-> None]
    ELSE agg

CommitRun(r, k) ==
    /\ tasks' = r.tasks
    /\ iterator' = r.iterator
    /\ workers' = r.workers
    /\ results' = r.results
    /\ completed' = r.completed
    /\ history' = r.history
    /\ aggregate' = PromiseAll(
                        IF aggregate.state = "notCalled"
                        THEN [aggregate EXCEPT !.state = "pending"]
                        ELSE aggregate,
                        r.workers, r.results, k)
    /\ UNCHANGED notSched

\* the caller calls mapLimitOptimized(array, limit, asyncFn) or
\* parallelLimitOptimized(tasks, limit): the synchronous part of the call,
\* up to `await Promise.all(workers)`
CallPool ==
    /\ aggregate.state = "notCalled"
    /\ fn \in WorkerPools
    /\ UNCHANGED <<fn, limit>>
    /\ LET r0 == [Run EXCEPT !.iterator = 1,
                             !.results = [i \in 1..N |-> Hole]]
           r == StartWorkers(r0, 1, WorkerCount(limit, N))
       IN CommitRun(r, 0)

\* the promise of a running task of a worker pool settles and the worker
\* awaiting it resumes
PoolTaskSettles(i, settled, x) ==
    /\ fn \in WorkerPools
    /\ aggregate.state # "notCalled"
    /\ tasks[i].state = "running"
    /\ UNCHANGED <<fn, limit>>
    /\ LET k == CHOOSE j \in 1..Len(workers) :
                   workers[j].state = "awaiting" /\ workers[j].index = i
           r0 == [Run EXCEPT !.tasks[i] = [state |-> settled, x |-> x],
                             !.history.order = Append(@, i)]
       IN CommitRun(IF fn = "mapLimitOptimized"
                    THEN MapWorkerResume(r0, k, settled, x)
                    ELSE ParallelWorkerResume(r0, k, settled, x), k)

\* Promise.myAll(promises) / Promise.myAllSettled(promises) is called with
\* an array of promises that are already in flight
CallAggregator ==
    /\ aggregate.state = "notCalled"
    /\ fn \in Aggregators
    /\ UNCHANGED <<fn, limit, iterator, workers, completed, history>>
    /\ UNCHANGED notSched
    /\ tasks' = [i \in 1..N |-> [state |-> "running", x |-> None]]
    /\ results' = <<>>
    /\ aggregate' = IF N = 0
                    THEN [state |-> "fulfilled", value |-> <<>>,
                          error |-> None]
                    ELSE [state |-> "pending", value |-> <<>>,
                          error |-> None]

\* results[index] = entry on an array that may be shorter than index
SetIndex(res, index, entry) ==
    [i \in 1..(IF index > Len(res) THEN index ELSE Len(res)) |->
        IF i = index THEN entry
        ELSE IF i <= Len(res) THEN res[i] ELSE Hole]

\* the .then / .catch handlers Promise.myAll attaches to input i
MyAllSettles(i, settled, x) ==
    /\ fn = "myAll"
    /\ aggregate.state # "notCalled"
    /\ tasks[i].state = "running"
    /\ UNCHANGED <<fn, limit, iterator, workers, notSched>>
    /\ tasks' = [tasks EXCEPT ![i] = [state |-> settled, x |-> x]]
    /\ IF settled = "fulfilled"
       THEN /\ results' = SetIndex(results, i, Raw(x))
            /\ completed' = completed + 1
            /\ history' = [Written(history, i) EXCEPT
                              !.order = Append(@, i)]
            /\ aggregate' =
                 IF completed' = N /\ aggregate.state = "pending"
                 THEN [state |-> "fulfilled", value |-> results',
                       error |-> None]
                 ELSE aggregate
       ELSE /\ UNCHANGED <<results, completed>>
            /\ history' = [history EXCEPT !.order = Append(@, i)]
            /\ aggregate' =
                 IF aggregate.state = "pending"
                 THEN [state |-> "rejected", value |-> <<>>, error |-> x]
                 ELSE aggregate

\* the .then / .catch handlers Promise.myAllSettled attaches to input i
MyAllSettledSettles(i, settled, x) ==
    /\ fn = "myAllSettled"
    /\ aggregate.state # "notCalled"
    /\ tasks[i].state = "running"
    /\ UNCHANGED <<fn, limit, iterator, workers, notSched>>
    /\ tasks' = [tasks EXCEPT ![i] = [state |-> settled, x |-> x]]
    /\ results' = SetIndex(results, i,
                     IF settled = "fulfilled" THEN Fulfilled(x)
                     ELSE Rejected(x))
    /\ completed' = completed + 1
    /\ history' = [Written(history, i) EXCEPT !.order = Append(@, i)]
    /\ aggregate' =
         IF completed' = N /\ aggregate.state = "pending"
         THEN [state |-> "fulfilled", value |-> results', error |-> None]
         ELSE aggregate

\* the outcomes task i can have
Outcomes(i) ==
    {<<"fulfilled", Value(i)>>, <<"fulfilled", ErrorObject(Error(i))>>,
     <<"rejected", Error(i)>>}

SchedInit ==
    /\ fn \in WorkerPools \cup Aggregators
    /\ limit \in 1..MaxLimit
    /\ \E n \in 0..MaxTasks :
          /\ tasks = [i \in 1..n |-> [state |-> "unstarted", x |-> None]]
          /\ history = [order |-> <<>>, starts |-> [i \in 1..n |-> 0],
                        writes |-> [i \in 1..n |-> 0]]
    /\ iterator = 0
    /\ workers = <<>>
    /\ results = <<>>
    /\ completed = 0
    /\ aggregate = [state |-> "notCalled", value |-> <<>>, error |-> None]

SchedIdle ==
    /\ fn = "none"
    /\ limit = 0
    /\ tasks = <<>>
    /\ history = [order |-> <<>>, starts |-> <<>>, writes |-> <<>>]
    /\ iterator = 0
    /\ workers = <<>>
    /\ results = <<>>
    /\ completed = 0
    /\ aggregate = [state |-> "notCalled", value |-> <<>>, error |-> None]

SchedNext ==
    \/ CallPool
    \/ CallAggregator
    \/ \E i \in 1..N : \E o \in Outcomes(i) : PoolTaskSettles(i, o[1], o[2])
    \/ \E i \in 1..N : \E o \in Outcomes(i) : MyAllSettles(i, o[1], o[2])
    \/ \E i \in 1..N : \E o \in Outcomes(i) :
          MyAllSettledSettles(i, o[1], o[2])

\* ------------------------------------------------------------------------
\* The same task list handed to a worker pool twice: first with a limit
\* that starts every task at once, then with a smaller one.  Every
\* producer returns a promise with the same outcome in both calls.
\* ------------------------------------------------------------------------
NoReference == [state |-> "none", value |-> <<>>, error |-> None]
\* how a promise settles that settles with x
Settlement(x) == IF x.t = "error" THEN "rejected" ELSE "fulfilled"

\* the promise of a running task settles with the outcome its producer
\* always yields
TaskSettlesAsPlanned(i) ==
    PoolTaskSettles(i, Settlement(tasks[i].x), tasks[i].x)

\* after the first call's promise has settled the caller calls the same
\* function on the same list with a limit below its length
CallAgain(lim) ==
    /\ fn \in WorkerPools
    /\ reference = NoReference
    /\ aggregate.state \in {"fulfilled", "rejected"}
    /\ limit >= N
    /\ lim < N
    /\ reference' = aggregate
    /\ limit' = lim
    /\ LET r0 == [tasks |-> [i \in 1..N |->
                               [state |-> "unstarted", x |-> tasks[i].x]],
                  iterator |-> 1, workers |-> <<>>,
                  results |-> [i \in 1..N |-> Hole], completed |-> 0,
                  history |-> [order |-> <<>>,
                               starts |-> [i \in 1..N |-> 0],
                               writes |-> [i \in 1..N |-> 0]]]
           r == StartWorkers(r0, 1, WorkerCount(lim, N))
       IN /\ tasks' = r.tasks
          /\ iterator' = r.iterator
          /\ workers' = r.workers
          /\ results' = r.results
          /\ completed' = r.completed
          /\ history' = r.history
          /\ aggregate' = PromiseAll(
                 [state |-> "pending", value |-> <<>>, error |-> None],
                 r.workers, r.results, 0)
    /\ UNCHANGED <<fn, pvars, rvars, yvars, xvars>>

EquivInit ==
    /\ fn \in WorkerPools
    /\ limit \in 1..MaxLimit
    /\ \E n \in 0..MaxTasks :
          /\ tasks \in [1..n -> [state : {"unstarted"},
                                 x : UNION {{o[2] : o \in Outcomes(i)} :
                                               i \in 1..n}]]
          /\ \A i \in 1..n : tasks[i].x.v = i
          /\ history = [order |-> <<>>, starts |-> [i \in 1..n |-> 0],
                        writes |-> [i \in 1..n |-> 0]]
    /\ iterator = 0
    /\ workers = <<>>
    /\ results = <<>>
    /\ completed = 0
    /\ aggregate = [state |-> "notCalled", value |-> <<>>, error |-> None]
    /\ reference = NoReference

EquivIdle == reference = NoReference

EquivNext ==
    \/ CallPool
    \/ \E i \in 1..N : TaskSettlesAsPlanned(i)
    \/ \E lim \in 1..MaxLimit : CallAgain(lim)

PromiseIdle ==
    /\ promises = <<>>
    /\ timers = <<>>
    /\ returned = NoneReturned

\* ------------------------------------------------------------------------
\* debounce, debounceAdvanced, throttle, throttleAdvanced
\* ------------------------------------------------------------------------
\* Date.now() when the wrapper is built: a time far above every delay
Epoch == 10
\* undefined / null in timeoutId and in lastArgs (timer ids and argument
\* lists are numbered from 1), undefined in a variable that holds a time
NoTimer == 0
NoArgs == 0
Unset == 0 - 1
Falsy(x) == x = Unset \/ x = 0
Max(a, b) == IF a >= b THEN a ELSE b

Debounces == {"debounce", "debounceAdvanced"}
Throttles == {"throttle", "throttleAdvanced"}
Advanced == {"debounceAdvanced", "throttleAdvanced"}

\* the run-time state the wrapper code transforms; ctx tells whether the
\* code runs inside a call of the wrapper, of cancel or flush, or inside a
\* timer callback
Rate(ctx) ==
    [c |-> scope, h |-> hostTimers, log |-> log, now |-> now, ctx |-> ctx]

\* func.apply(context, args); the history keeps when it ran, with which
\* arguments, from where, and how many operations the caller had made
Func(t, args) ==
    [t EXCEPT !.log.invoked =
        Append(@, [time |-> t.now, args |-> args, ctx |-> t.ctx,
                   op |-> Len(t.log.ops)])]

\* a setTimeout that returns an id and never runs the callback
SetTimerDropped(t, ms, args) == [t EXCEPT !.h.next = @ + 1]
\* setTimeout(callback, ms) for a callback that captured args; the id it
\* returns is t.h.next
SetTimer(t, ms, args) ==
    [t EXCEPT !.h.next = @ + 1,
              !.h.queue = Append(@, [id |-> t.h.next,
                                     due |-> t.now + Max(ms, 0),
                                     args |-> args])]
\* a clearTimeout that leaves the timer in place
ClearTimeoutNothing(t, id) == t
\* clearTimeout(id)
ClearTimeout(t, id) ==
    [t EXCEPT !.h.queue = SelectSeq(@, LAMBDA timer : timer.id # id)]

\* ---- debounce (lines 637-660) ----
\* later()
Later(t, w, args) ==
    LET t1 == [t EXCEPT !.c.timeoutId = NoTimer]
    IN IF ~w.immediate THEN Func(t1, args) ELSE t1
\* debounced(...args)
Debounced(t, w, args) ==
    LET callNow == w.immediate /\ Falsy(t.c.timeoutId)
        t1 == ClearTimeout(t, t.c.timeoutId)
        t2 == [SetTimer(t1, w.delay, args) EXCEPT !.c.timeoutId = t1.h.next]
    IN IF callNow THEN Func(t2, args) ELSE t2

\* ---- debounceAdvanced (lines 663-767) ----
DebounceInvokeFunc(t, time) ==
    Func([t EXCEPT !.c.lastArgs = NoArgs, !.c.lastInvokeTime = time],
         t.c.lastArgs)
DebounceShouldInvoke(t, w, time) ==
    LET timeSinceLastCall ==
            time - (IF Falsy(t.c.lastCallTime) THEN 0 ELSE t.c.lastCallTime)
        timeSinceLastInvoke == time - t.c.lastInvokeTime
    IN \/ t.c.lastCallTime = Unset
       \/ timeSinceLastCall >= w.delay
       \/ timeSinceLastCall < 0
       \/ (w.maxWait # Unset /\ timeSinceLastInvoke >= w.maxWait)
TrailingEdge(t, w, time) ==
    LET t1 == [t EXCEPT !.c.timeoutId = NoTimer]
    IN IF w.trailing /\ t1.c.lastArgs # NoArgs
       THEN DebounceInvokeFunc(t1, time)
       ELSE [t1 EXCEPT !.c.lastArgs = NoArgs]
TimerExpired(t, w) ==
    LET time == t.now
        timeSinceLastCall == time - t.c.lastCallTime
        timeWaiting == w.delay - timeSinceLastCall
        ms == IF w.maxWait # Unset
              THEN Min(timeWaiting, w.maxWait - (time - t.c.lastInvokeTime))
              ELSE timeWaiting
    IN IF DebounceShouldInvoke(t, w, time) THEN TrailingEdge(t, w, time)
       ELSE [SetTimer(t, ms, NoArgs) EXCEPT !.c.timeoutId = t.h.next]
LeadingEdge(t, w, time) ==
    LET t1 == [SetTimer([t EXCEPT !.c.lastInvokeTime = time],
                        w.delay, NoArgs)
                  EXCEPT !.c.timeoutId = t.h.next]
    IN IF w.leading THEN DebounceInvokeFunc(t1, time) ELSE t1
\* debounced(...args)
DebouncedAdvanced(t, w, args) ==
    LET time == t.now
        isInvoking == DebounceShouldInvoke(t, w, time)
        t1 == [t EXCEPT !.c.lastArgs = args, !.c.lastCallTime = time]
    IN IF isInvoking /\ t1.c.timeoutId = NoTimer
       THEN LeadingEdge(t1, w, time)
       ELSE IF isInvoking /\ ~Falsy(w.maxWait)
       THEN DebounceInvokeFunc(
              [SetTimer(t1, w.delay, NoArgs) EXCEPT
                  !.c.timeoutId = t1.h.next],
              time)
       ELSE IF t1.c.timeoutId = NoTimer
       THEN [SetTimer(t1, w.delay, NoArgs) EXCEPT !.c.timeoutId = t1.h.next]
       ELSE t1
\* debounced.cancel()
DebounceCancel(t) ==
    LET t1 == IF t.c.timeoutId # NoTimer
              THEN ClearTimeout(t, t.c.timeoutId) ELSE t
    IN [t1 EXCEPT !.c.lastInvokeTime = 0, !.c.lastArgs = NoArgs,
                  !.c.lastCallTime = Unset, !.c.timeoutId = NoTimer]
\* debounced.flush()
DebounceFlush(t, w) ==
    IF t.c.timeoutId = NoTimer THEN t ELSE TrailingEdge(t, w, t.now)

\* ---- throttle (lines 779-810) ----
\* invokeFunc(), the closure of one call
ThrottleInvokeFunc(t, args) ==
    Func([t EXCEPT !.c.lastRan = t.now, !.c.timeoutId = NoTimer], args)
\* throttled(...args)
Throttled(t, w, args) ==
    LET t1 == IF Falsy(t.c.lastRan) /\ ~w.leading
              THEN [t EXCEPT !.c.lastRan = t.now] ELSE t
        timeSinceLastRan ==
            t.now - (IF Falsy(t1.c.lastRan) THEN 0 ELSE t1.c.lastRan)
        remaining == w.delay - timeSinceLastRan
    IN IF remaining <= 0 \/ remaining > w.delay
       THEN ThrottleInvokeFunc(
              IF ~Falsy(t1.c.timeoutId)
              THEN [ClearTimeout(t1, t1.c.timeoutId) EXCEPT
                       !.c.timeoutId = NoTimer]
              ELSE t1,
              args)
       ELSE IF Falsy(t1.c.timeoutId) /\ w.trailing
       THEN [SetTimer(t1, remaining, args) EXCEPT !.c.timeoutId = t1.h.next]
       ELSE t1

\* ---- throttleAdvanced (lines 813-862) ----
ThrottleAdvancedInvokeFunc(t) ==
    [Func([t EXCEPT !.c.lastCallTime = t.now, !.c.timeoutId = NoTimer],
          t.c.lastArgs)
       EXCEPT !.c.lastArgs = NoArgs]
ThrottleShouldInvoke(t, w, time) == time - t.c.lastCallTime >= w.delay
\* a throttled(...args) that keeps the arguments it already holds
ThrottledAdvancedKeepsArgs(t, w, args) ==
    LET time == t.now
        t1 == IF t.c.lastArgs = NoArgs THEN [t EXCEPT !.c.lastArgs = args]
              ELSE t
        isInvoking == ThrottleShouldInvoke(t1, w, time)
    IN IF isInvoking /\ Falsy(t1.c.timeoutId) /\ w.leading
       THEN ThrottleAdvancedInvokeFunc(t1)
       ELSE IF Falsy(t1.c.timeoutId) /\ w.trailing
       THEN [SetTimer(t1, w.delay - (time - t1.c.lastCallTime), NoArgs)
               EXCEPT !.c.timeoutId = t1.h.next]
       ELSE t1
\* throttled(...args)
ThrottledAdvanced(t, w, args) ==
    LET time == t.now
        t1 == [t EXCEPT !.c.lastArgs = args]
        isInvoking == ThrottleShouldInvoke(t1, w, time)
    IN IF isInvoking /\ Falsy(t1.c.timeoutId) /\ w.leading
       THEN ThrottleAdvancedInvokeFunc(t1)
       ELSE IF Falsy(t1.c.timeoutId) /\ w.trailing
       THEN [SetTimer(t1, w.delay - (time - t1.c.lastCallTime), NoArgs)
               EXCEPT !.c.timeoutId = t1.h.next]
       ELSE t1
\* a cancel() that forgets the timer without clearing it
ThrottleCancelKeepsTimer(t) ==
    [t EXCEPT !.c.timeoutId = NoTimer, !.c.lastCallTime = 0,
              !.c.lastArgs = NoArgs]
\* throttled.cancel()
ThrottleCancel(t) ==
    LET t1 == IF ~Falsy(t.c.timeoutId)
              THEN [ClearTimeout(t, t.c.timeoutId) EXCEPT
                       !.c.timeoutId = NoTimer]
              ELSE t
    IN [t1 EXCEPT !.c.lastCallTime = 0, !.c.lastArgs = NoArgs]
\* throttled.flush(): the wrapper is given cancel and nothing else, so
\* throttled.flush is undefined and the call throws a TypeError
ThrottleFlush(t) == t

\* ---- the caller and the host ----
\* a timer whose time has come
TimerDue == \E i \in 1..Len(hostTimers.queue) : hostTimers.queue[i].due <= now
\* the timer the host runs next: the earliest due, the oldest among equals
NextTimer ==
    CHOOSE i \in 1..Len(hostTimers.queue) :
        /\ hostTimers.queue[i].due <= now
        /\ \A j \in 1..Len(hostTimers.queue) :
              \/ hostTimers.queue[j].due > hostTimers.queue[i].due
              \/ (hostTimers.queue[j].due = hostTimers.queue[i].due /\ j >= i)

CommitRate(t) ==
    /\ scope' = t.c
    /\ hostTimers' = t.h
    /\ log' = t.log
    /\ UNCHANGED <<wrapper, now, notRate>>

\* history: an operation on the wrapper
Logged(t, op) ==
    [t EXCEPT !.log.ops = Append(@, [op |-> op, time |-> t.now])]

\* The caller calls the wrapper; the arguments are the number of the call.
\* Timer callbacks that are due run before the caller's code.
Call ==
    /\ ~TimerDue
    /\ Len(log.ops) < MaxOps
    /\ LET args == Len(log.ops) + 1
           t == Logged(Rate("call"), "call")
       IN CommitRate(
            CASE wrapper.fn = "debounce" -> Debounced(t, wrapper, args)
              [] wrapper.fn = "debounceAdvanced" ->
                   DebouncedAdvanced(t, wrapper, args)
              [] wrapper.fn = "throttle" -> Throttled(t, wrapper, args)
              [] wrapper.fn = "throttleAdvanced" ->
                   ThrottledAdvanced(t, wrapper, args))

\* the caller calls cancel()
Cancel ==
    /\ ~TimerDue
    /\ Len(log.ops) < MaxOps
    /\ wrapper.fn \in Advanced
    /\ LET t == Logged(Rate("cancel"), "cancel")
       IN CommitRate(IF wrapper.fn = "debounceAdvanced"
                     THEN DebounceCancel(t) ELSE ThrottleCancel(t))

\* the caller calls flush()
Flush ==
    /\ ~TimerDue
    /\ Len(log.ops) < MaxOps
    /\ wrapper.fn \in Advanced
    /\ LET t == Logged(Rate("flush"), "flush")
       IN CommitRate(IF wrapper.fn = "debounceAdvanced"
                     THEN DebounceFlush(t, wrapper) ELSE ThrottleFlush(t))

\* a millisecond passes
Tick ==
    /\ ~TimerDue
    /\ now < Epoch + MaxTime
    /\ now' = now + 1
    /\ UNCHANGED <<wrapper, scope, hostTimers, log, notRate>>

\* the host runs the callback of a timer that is due
Expire ==
    /\ TimerDue
    /\ LET timer == hostTimers.queue[NextTimer]
           t == [Rate("timer") EXCEPT
                    !.h.queue = SelectSeq(@, LAMBDA x : x.id # timer.id)]
       IN CommitRate(
            CASE wrapper.fn = "debounce" -> Later(t, wrapper, timer.args)
              [] wrapper.fn = "debounceAdvanced" -> TimerExpired(t, wrapper)
              [] wrapper.fn = "throttle" -> ThrottleInvokeFunc(t, timer.args)
              [] wrapper.fn = "throttleAdvanced" ->
                   ThrottleAdvancedInvokeFunc(t))

\* the options a wrapper is built with
Options(f, delay) ==
    CASE f = "debounce" ->
           {[fn |-> f, delay |-> delay, immediate |-> i, leading |-> FALSE,
             trailing |-> TRUE, maxWait |-> Unset] : i \in BOOLEAN}
      [] f = "debounceAdvanced" ->
           {[fn |-> f, delay |-> delay, immediate |-> FALSE, leading |-> l,
             trailing |-> tr, maxWait |-> m] :
                l \in BOOLEAN, tr \in BOOLEAN, m \in {Unset, delay + 1}}
      [] OTHER ->
           {[fn |-> f, delay |-> delay, immediate |-> FALSE, leading |-> l,
             trailing |-> tr, maxWait |-> Unset] :
                l \in BOOLEAN, tr \in BOOLEAN}

NoWrapper ==
    [fn |-> "none", delay |-> 0, immediate |-> FALSE, leading |-> FALSE,
     trailing |-> FALSE, maxWait |-> Unset]

RateInit ==
    /\ \E f \in Debounces \cup Throttles : \E delay \in 2..MaxDelay :
          wrapper \in Options(f, delay)
    /\ now = Epoch
    /\ scope = [timeoutId |-> NoTimer, lastArgs |-> NoArgs,
                  lastCallTime |-> IF wrapper.fn = "throttleAdvanced"
                                   THEN 0 ELSE Unset,
                  lastInvokeTime |-> 0, lastRan |-> Unset]
    /\ hostTimers = [next |-> 1, queue |-> <<>>]
    /\ log = [ops |-> <<>>, invoked |-> <<>>]

RateIdle ==
    /\ wrapper = NoWrapper
    /\ now = 0
    /\ scope = [timeoutId |-> NoTimer, lastArgs |-> NoArgs,
                  lastCallTime |-> Unset, lastInvokeTime |-> 0,
                  lastRan |-> Unset]
    /\ hostTimers = [next |-> 1, queue |-> <<>>]
    /\ log = [ops |-> <<>>, invoked |-> <<>>]

RateNext ==
    \/ Call
    \/ Cancel
    \/ Flush
    \/ Tick
    \/ Expire

\* ------------------------------------------------------------------------
\* retry, retryWithBackoff, retryWithCondition, retryAdvanced
\* ------------------------------------------------------------------------
Retries == {"retry", "retryWithBackoff", "retryWithCondition",
            "retryAdvanced"}
\* the functions that multiply delay by backoffFactor after each wait
Backoffs == {"retryWithBackoff", "retryAdvanced"}
\* the functions that ask shouldRetry(error, attempt)
Conditionals == {"retryWithCondition", "retryAdvanced"}

\* new Error('Operation timeout'), new Error('Operation aborted')
OperationTimeout == [t |-> "Operation timeout", v |-> 0]
OperationAborted == [t |-> "Operation aborted", v |-> 0]
\* new Error(`Failed after ${maxAttempts} attempts: ${error.message}`)
FailedAfter(maxAttempts, error) ==
    [t |-> "Failed after", v |-> error.v, n |-> maxAttempts]

\* the run-time state the retry code transforms
Retry ==
    [o |-> options, f |-> frame, h |-> host, s |-> signal, r |-> outcome,
     tr |-> trace]

\* return value / throw error out of the async function
Return(y, value) ==
    [y EXCEPT !.r = [state |-> "fulfilled", x |-> value], !.f.pc = "done"]
Throw(y, error) ==
    [y EXCEPT !.r = [state |-> "rejected", x |-> error], !.f.pc = "done"]

\* a try block that races every attempt against a timer, also when
\* timeout is 0
AttemptAlwaysTimed(y) ==
    IF y.f.attempt > y.o.maxAttempts
    THEN Return(y, Undefined)
    ELSE IF y.o.fn = "retryAdvanced" /\ y.o.signal /\ y.s.aborted
    THEN Throw(y, OperationAborted)
    ELSE [y EXCEPT !.f.pc = "attempt",
                   !.h.inflight = @ \cup {y.f.attempt},
                   !.h.timeouts =
                       IF y.o.fn = "retryAdvanced"
                       THEN @ \cup {y.f.attempt} ELSE @,
                   !.tr.calls = Append(@, "pending")]
\* a loop head that does not look at the signal
AttemptIgnoresAbort(y) ==
    IF y.f.attempt > y.o.maxAttempts
    THEN Return(y, Undefined)
    ELSE [y EXCEPT !.f.pc = "attempt",
                   !.h.inflight = @ \cup {y.f.attempt},
                   !.h.timeouts =
                       IF y.o.fn = "retryAdvanced" /\ y.o.timeout > 0
                       THEN @ \cup {y.f.attempt} ELSE @,
                   !.tr.calls = Append(@, "pending")]
\* one pass through the head of the for loop and the try block, up to the
\* await of fn()
Attempt(y) ==
    IF y.f.attempt > y.o.maxAttempts
    THEN Return(y, Undefined)
    ELSE IF y.o.fn = "retryAdvanced" /\ y.o.signal /\ y.s.aborted
    THEN Throw(y, OperationAborted)
    ELSE [y EXCEPT !.f.pc = "attempt",
                   !.h.inflight = @ \cup {y.f.attempt},
                   !.h.timeouts =
                       IF y.o.fn = "retryAdvanced" /\ y.o.timeout > 0
                       THEN @ \cup {y.f.attempt} ELSE @,
                   !.tr.calls = Append(@, "pending")]

\* await new Promise(resolve => setTimeout(resolve, delay)), in retryAdvanced
\* with an abort listener that clears the timer and rejects
Wait(y) ==
    [y EXCEPT !.f.pc = "wait",
              !.h.wait = y.f.attempt,
              !.h.listeners =
                  IF y.o.fn = "retryAdvanced" /\ y.o.signal
                  THEN @ \cup {y.f.attempt} ELSE @,
              !.tr.waits = Append(@, y.f.delay)]

\* a catch block that gives up one attempt early
CatchGivesUpEarly(y, error) ==
    LET y1 == [y EXCEPT !.tr.caught = Append(@, error)]
    IN IF y.f.attempt >= y.o.maxAttempts - 1 THEN Throw(y1, error)
       ELSE Wait(y1)
\* a catch block that retries whatever shouldRetry answers
CatchAlwaysRetries(y, error) ==
    LET y1 == [y EXCEPT !.tr.caught = Append(@, error)]
    IN IF y.f.attempt = y.o.maxAttempts THEN Throw(y1, error) ELSE Wait(y1)
\* the catch block, up to the await of the wait
Catch(y, error) ==
    LET y1 == [y EXCEPT !.tr.caught = Append(@, error)]
        attempt == y.f.attempt
    IN IF y.o.fn \in Conditionals
       THEN LET canRetry == attempt < y.o.maxAttempts
                               /\ y.o.shouldRetry[attempt]
            IN IF ~canRetry THEN Throw(y1, error) ELSE Wait(y1)
       ELSE IF attempt = y.o.maxAttempts
       THEN Throw(y1, IF y.o.fn = "retry"
                      THEN FailedAfter(y.o.maxAttempts, error) ELSE error)
       ELSE Wait(y1)

\* the rest of the catch block after the wait: delay is multiplied and
\* capped
NextDelay(y) ==
    IF y.o.fn \in Backoffs
    THEN Min(y.f.delay * y.o.backoffFactor, y.o.maxDelay)
    ELSE y.f.delay

\* the wait is over: the end of the loop body and attempt++
AfterWait(y) ==
    Attempt([y EXCEPT !.f.delay = NextDelay(y), !.f.attempt = @ + 1])

\* the async function is suspended at the await of attempt a
Awaiting(y, a) == y.f.pc = "attempt" /\ y.f.attempt = a
\* the async function is suspended at the wait that follows attempt a
Waiting(y, a) == y.f.pc = "wait" /\ y.f.attempt = a

\* an abort listener that rejects and leaves the timer armed
AbortListenerKeepsWaiting(y, a) == y
\* the abort listener registered during the wait after attempt a:
\* clearTimeout(timeoutId); reject(new Error('Operation aborted'))
AbortListener(y, a) ==
    LET y1 == IF y.h.wait = a THEN [y EXCEPT !.h.wait = 0] ELSE y
    IN IF Waiting(y1, a) THEN Throw(y1, OperationAborted) ELSE y1

\* the listeners run in the order they were added
RECURSIVE DispatchAbort(_, _)
DispatchAbort(y, a) ==
    IF a > MaxAttempts + 1 THEN y
    ELSE DispatchAbort(IF a \in y.h.listeners THEN AbortListener(y, a) ELSE y,
                       a + 1)

CommitRetry(y) ==
    /\ frame' = y.f
    /\ host' = y.h
    /\ signal' = y.s
    /\ outcome' = y.r
    /\ trace' = y.tr
    /\ UNCHANGED <<options, notRetry>>

\* the caller calls the retry function: delay = initialDelay, attempt = 1
CallRetry ==
    /\ frame.pc = "notCalled"
    /\ CommitRetry(Attempt([Retry EXCEPT !.f.attempt = 1,
                                         !.f.delay = options.initialDelay]))

\* the promise fn() returned at attempt a settles (a throw of fn() and a
\* plain return value count as settlements)
ProducerSettles(a, ok) ==
    /\ a \in host.inflight
    /\ LET y == [Retry EXCEPT !.h.inflight = @ \ {a},
                              !.tr.calls[a] = IF ok THEN "value" ELSE "error"]
       IN CommitRetry(IF ~Awaiting(y, a) THEN y
                      ELSE IF ok THEN Return(y, Value(a))
                      ELSE Catch(y, Error(a)))

\* the timer of attempt a's timeoutPromise expires
TimeoutExpires(a) ==
    /\ a \in host.timeouts
    /\ LET y == [Retry EXCEPT !.h.timeouts = @ \ {a}]
       IN CommitRetry(IF Awaiting(y, a) THEN Catch(y, OperationTimeout)
                      ELSE y)

\* the timer of the inter-attempt wait expires
WaitExpires ==
    /\ host.wait # 0
    /\ LET y == [Retry EXCEPT !.h.wait = 0]
       IN CommitRetry(IF Waiting(y, host.wait) THEN AfterWait(y) ELSE y)

\* the owner of the signal aborts it: the abort event is dispatched once
Abort ==
    /\ options.signal
    /\ ~signal.aborted
    /\ frame.pc # "done"  \* an abort after the call has settled changes nothing
    /\ CommitRetry(DispatchAbort(
          [Retry EXCEPT !.s = [aborted |-> TRUE, pc |-> frame.pc,
                               attempt |-> frame.attempt,
                               calls |-> Len(trace.calls)]],
          1))

\* shouldRetry answers by the attempt number
ShouldRetries == [1..MaxAttempts -> BOOLEAN]
AlwaysRetry == [a \in 1..MaxAttempts |-> TRUE]

\* the arguments of a call: the options a function does not take are left
\* at a fixed value
RetryOptions(f) ==
    {[fn |-> f, maxAttempts |-> m, initialDelay |-> d, maxDelay |-> md,
      backoffFactor |-> b, timeout |-> tm, shouldRetry |-> sr,
      signal |-> sg] :
        m \in 0..MaxAttempts,
        d \in 1..MaxWait,
        md \in (IF f \in Backoffs THEN 2..MaxWait ELSE {MaxWait}),
        b \in (IF f \in Backoffs THEN 1..MaxFactor ELSE {1}),
        tm \in (IF f = "retryAdvanced" THEN {0, 1} ELSE {0}),
        sr \in (IF f \in Conditionals THEN ShouldRetries ELSE {AlwaysRetry}),
        sg \in (IF f = "retryAdvanced" THEN BOOLEAN ELSE {FALSE})}

NoOptions ==
    [fn |-> "none", maxAttempts |-> 0, initialDelay |-> 0, maxDelay |-> 0,
     backoffFactor |-> 0, timeout |-> 0, shouldRetry |-> AlwaysRetry,
     signal |-> FALSE]

NotCalled ==
    /\ frame = [pc |-> "notCalled", attempt |-> 0, delay |-> 0]
    /\ host = [inflight |-> {}, timeouts |-> {}, wait |-> 0,
               listeners |-> {}]
    /\ signal = [aborted |-> FALSE, pc |-> "none", attempt |-> 0,
                 calls |-> 0]
    /\ outcome = [state |-> "pending", x |-> None]
    /\ trace = [calls |-> <<>>, caught |-> <<>>, waits |-> <<>>]

RetryInit ==
    /\ \E f \in Retries : options \in RetryOptions(f)
    /\ NotCalled

RetryIdle ==
    /\ options = NoOptions
    /\ NotCalled

RetryNext ==
    \/ CallRetry
    \/ \E a \in 1..MaxAttempts : \E ok \in BOOLEAN : ProducerSettles(a, ok)
    \/ \E a \in 1..MaxAttempts : TimeoutExpires(a)
    \/ WaitExpires
    \/ Abort

\* ------------------------------------------------------------------------
\* Promise.myRace (native promises: reactions run as promise jobs)
\* ------------------------------------------------------------------------
NotArray == <<[state |-> "notArray", x |-> None]>>
Pending == [state |-> "pending", x |-> None]

\* the state the code of myRace and the promise jobs transform
Race ==
    [inputs |-> inputs, chained |-> chained, jobs |-> microtasks,
     raced |-> raced]

\* resolve(x) / reject(x) of the promise myRace returned
RaceResolve(m, x) ==
    IF m.raced.state = "pending"
    THEN [m EXCEPT !.raced.state = "fulfilled", !.raced.x = x] ELSE m
RaceReject(m, x) ==
    IF m.raced.state = "pending"
    THEN [m EXCEPT !.raced.state = "rejected", !.raced.x = x] ELSE m

\* promise.then(resolve) on input i: the reaction is queued at once when the
\* input has settled; .catch(reject) on the promise then returned, which is
\* pending
RECURSIVE ForEach(_, _)
ForEach(m, i) ==
    IF i > Len(m.inputs) THEN m
    ELSE ForEach(
           [m EXCEPT !.chained = Append(@, Pending),
                     !.jobs = IF m.inputs[i].state # "pending"
                              THEN Append(@, [job |-> "then", i |-> i])
                              ELSE @],
           i + 1)

\* the executor of the promise myRace returns
MyRace(m) ==
    LET m1 == [m EXCEPT !.raced.called = TRUE]
    IN IF m.inputs = NotArray
       THEN RaceReject(m1, [t |-> "TypeError", v |-> 0])
       ELSE IF Len(m.inputs) = 0 THEN m1
       ELSE ForEach(m1, 1)

\* the reaction of input i's then(resolve): a fulfilled input calls
\* resolve(value) and fulfils the chained promise with what resolve returned;
\* a rejected input, for which then has no handler, rejects the chained
\* promise with the same reason.  Either way the chained promise's catch
\* reaction is queued.
ThenJob(m, i) ==
    LET m1 == IF m.inputs[i].state = "fulfilled"
              THEN [RaceResolve(m, m.inputs[i].x) EXCEPT
                       !.chained[i] = [state |-> "fulfilled", x |-> None]]
              ELSE [m EXCEPT !.chained[i] = m.inputs[i]]
    IN [m1 EXCEPT !.jobs = Append(@, [job |-> "catch", i |-> i])]

\* the reaction of the chained promise's catch(reject)
CatchJob(m, i) ==
    IF m.chained[i].state = "rejected"
    THEN RaceReject(m, m.chained[i].x) ELSE m

CommitRace(m) ==
    /\ inputs' = m.inputs
    /\ chained' = m.chained
    /\ microtasks' = m.jobs
    /\ raced' = m.raced
    /\ UNCHANGED notRace

\* the caller calls Promise.myRace(promises)
CallRace ==
    /\ ~raced.called
    /\ CommitRace(MyRace(Race))
    /\ UNCHANGED arrival

\* a pending input settles; its then reaction is queued
InputSettles(i, state) ==
    /\ raced.called
    /\ inputs # NotArray
    /\ i \in 1..Len(inputs)
    /\ inputs[i].state = "pending"
    /\ arrival' = Append(arrival, i)
    /\ CommitRace([Race EXCEPT
          !.inputs[i] = [state |-> state,
                         x |-> IF state = "fulfilled" THEN Value(i)
                               ELSE Error(i)],
          !.jobs = Append(@, [job |-> "then", i |-> i])])

\* the host runs the oldest promise job
RunJob ==
    /\ microtasks # <<>>
    /\ LET job == Head(microtasks)
           m == [Race EXCEPT !.jobs = Tail(@)]
       IN CommitRace(IF job.job = "then" THEN ThenJob(m, job.i)
                     ELSE CatchJob(m, job.i))
    /\ UNCHANGED arrival

\* the inputs that have settled before the call, in array order
RECURSIVE SettledBefore(_, _)
SettledBefore(in, i) ==
    IF i > Len(in) THEN <<>>
    ELSE (IF in[i].state # "pending" THEN <<i>> ELSE <<>>)
            \o SettledBefore(in, i + 1)

RaceArguments ==
    {NotArray} \cup
    UNION {{in \in [1..n -> {Pending} \cup
                     UNION {{[state |-> "fulfilled", x |-> Value(i)],
                             [state |-> "rejected", x |-> Error(i)]} :
                                i \in 1..n}] :
               \A i \in 1..n : in[i].state # "pending" => in[i].x.v = i} :
           n \in 0..MaxInputs}

RaceInit ==
    /\ inputs \in RaceArguments
    /\ chained = <<>>
    /\ microtasks = <<>>
    /\ raced = [called |-> FALSE, state |-> "pending", x |-> None]
    /\ arrival = IF inputs = NotArray THEN <<>> ELSE SettledBefore(inputs, 1)

RaceIdle ==
    /\ inputs = <<>>
    /\ chained = <<>>
    /\ microtasks = <<>>
    /\ raced = [called |-> FALSE, state |-> "pending", x |-> None]
    /\ arrival = <<>>

RaceNext ==
    \/ CallRace
    \/ \E i \in 1..MaxInputs : \E state \in {"fulfilled", "rejected"} :
          InputSettles(i, state)
    \/ RunJob

\* ------------------------------------------------------------------------
\* LRUCache
\* ------------------------------------------------------------------------
Keys == 1..MaxKeys
CacheValues == {"v", "w"}
\* no key (keys().next().value of an empty Map is undefined)
NoKey == 0

\* Map.prototype.has / get / delete / set / keys().next().value on the
\* entries in insertion order
MapHas(map, key) == \E i \in 1..Len(map) : map[i].key = key
MapGet(map, key) == map[CHOOSE i \in 1..Len(map) : map[i].key = key].value
MapDelete(map, key) == SelectSeq(map, LAMBDA e : e.key # key)
MapSet(map, key, value) ==
    IF MapHas(map, key)
    THEN [i \in 1..Len(map) |->
            IF map[i].key = key THEN [key |-> key, value |-> value]
            ELSE map[i]]
    ELSE Append(map, [key |-> key, value |-> value])
FirstKey(map) == IF map = <<>> THEN NoKey ELSE map[1].key

\* a get that leaves the entry where it is
LRUGetInPlace(map, key) == map
\* get(key): the Map after the call
LRUGet(map, key) ==
    IF ~MapHas(map, key) THEN map
    ELSE MapSet(MapDelete(map, key), key, MapGet(map, key))

\* put(key, value): the Map after the call
LRUPut(map, cap, key, value) ==
    LET m1 == IF MapHas(map, key) THEN MapDelete(map, key) ELSE map
        m2 == IF Len(m1) >= cap THEN MapDelete(m1, FirstKey(m1)) ELSE m1
    IN MapSet(m2, key, value)

\* the keys of a Map
KeysOf(map) == {map[i].key : i \in 1..Len(map)}
\* history: key becomes the most recently used
Use(seq, key) == Append(SelectSeq(seq, LAMBDA k : k # key), key)
\* the least recently used of the keys stored, NoKey if none is stored
LeastRecent ==
    IF cache = <<>> THEN NoKey
    ELSE recent[CHOOSE i \in 1..Len(recent) :
            /\ recent[i] \in KeysOf(cache)
            /\ \A j \in 1..(i - 1) : recent[j] \notin KeysOf(cache)]
\* history of one operation: what was stored before it, and what it removed
Did(op, key, map) ==
    [op |-> op, key |-> key, existed |-> MapHas(cache, key),
     full |-> Len(cache) >= capacity, lru |-> LeastRecent,
     evicted |-> (KeysOf(cache) \ KeysOf(map)) \ {key},
     size |-> Len(cache)]

Get(key) ==
    /\ cache' = LRUGet(cache, key)
    /\ recent' = IF MapHas(cache, key) THEN Use(recent, key) ELSE recent
    /\ lastOp' = Did("get", key, cache')
    /\ UNCHANGED <<capacity, notCache>>

Put(key, value) ==
    /\ cache' = LRUPut(cache, capacity, key, value)
    /\ recent' = Use(recent, key)
    /\ lastOp' = Did("put", key, cache')
    /\ UNCHANGED <<capacity, notCache>>

\* has(key) returns this.cache.has(key) and changes nothing
Has(key) ==
    /\ lastOp' = Did("has", key, cache)
    /\ UNCHANGED <<capacity, cache, recent, notCache>>

Clear ==
    /\ cache' = <<>>
    /\ lastOp' = Did("clear", NoKey, cache')
    /\ UNCHANGED <<capacity, recent, notCache>>

NoOp ==
    [op |-> "none", key |-> NoKey, existed |-> FALSE, full |-> FALSE,
     lru |-> NoKey, evicted |-> {}, size |-> 0]

\* new LRUCache(capacity)
CacheInit ==
    /\ capacity \in 0..MaxCapacity
    /\ cache = <<>>
    /\ recent = <<>>
    /\ lastOp = NoOp

CacheIdle ==
    /\ capacity = 0
    /\ cache = <<>>
    /\ recent = <<>>
    /\ lastOp = NoOp

CacheNext ==
    \/ \E key \in Keys : Get(key)
    \/ \E key \in Keys : \E value \in CacheValues : Put(key, value)
    \/ \E key \in Keys : Has(key)
    \/ Clear

\* ------------------------------------------------------------------------
\* EventEmitter (one event)
\* ------------------------------------------------------------------------
ListenerIds == 1..MaxListeners
\* what a listener function does: it returns, it throws, or it calls
\* this.emit(event) for the same event the first time it is called
Behaviours == {"returns", "throws", "emits"}

\* a world of the emitter: the array of the event, and for each on()/once()
\* call so far the function registered, whether through once(), and how
\* often the function was called through that registration
EmitterWorld == [events |-> events, regs |-> emitted.regs]

\* on(event, listener) / once(event, listener): the entry pushed is the
\* listener itself or a new onceWrapper around it
Register(w, l, once) ==
    LET r == Len(w.regs) + 1
    IN [w EXCEPT !.events = Append(@, [reg |-> r, listener |-> l, once |-> once]),
                 !.regs = Append(@, [listener |-> l, once |-> once, invoked |-> 0])]

\* off(event, f) with f a listener function: entries that are f or wrap f go
OffListener(w, l) ==
    [w EXCEPT !.events = SelectSeq(@, LAMBDA e : e.listener # l)]
\* off(event, onceWrapper): the wrapper of registration r goes
OffWrapper(w, r) ==
    [w EXCEPT !.events = SelectSeq(@, LAMBDA e : e.reg # r)]

\* the calls of listener l so far, through all its registrations
CallsOf(w, l) ==
    LET RECURSIVE Sum(_)
        Sum(i) == IF i = 0 THEN 0
                  ELSE Sum(i - 1) + (IF w.regs[i].listener = l
                                     THEN w.regs[i].invoked ELSE 0)
    IN Sum(Len(w.regs))

RECURSIVE EmitWorld(_)
RECURSIVE ForEachListener(_, _, _)
\* listener.apply(this, args) for the entry e of the copied array: the
\* listener's own body, then, for a onceWrapper whose listener returned,
\* this.off(event, onceWrapper)
ApplyListener(w, e) ==
    LET w1 == [w EXCEPT !.regs[e.reg].invoked = @ + 1]
        first == CallsOf(w1, e.listener) = 1
        w2 == IF listeners[e.listener] = "emits" /\ first
              THEN EmitWorld(w1) ELSE w1
        threw == listeners[e.listener] = "throws"
    IN IF e.once /\ ~threw THEN OffWrapper(w2, e.reg) ELSE w2

\* listeners.forEach(...) over the copy taken when emit started
ForEachListener(w, copy, i) ==
    IF i > Len(copy) THEN w
    ELSE ForEachListener(ApplyListener(w, copy[i]), copy, i + 1)

\* emit(event, ...args)
EmitWorld(w) ==
    IF w.events = <<>> THEN w
    ELSE ForEachListener(w, w.events, 1)

CommitEmitter(w, n) ==
    /\ events' = w.events
    /\ emitted' = [regs |-> w.regs, emits |-> emitted.emits + n]
    /\ UNCHANGED <<listeners, notEmitter>>

On(l) ==
    /\ Len(emitted.regs) < MaxRegistrations
    /\ CommitEmitter(Register(EmitterWorld, l, FALSE), 0)

Once(l) ==
    /\ Len(emitted.regs) < MaxRegistrations
    /\ CommitEmitter(Register(EmitterWorld, l, TRUE), 0)

Off(l) == CommitEmitter(OffListener(EmitterWorld, l), 0)

Emit ==
    /\ emitted.emits < MaxEmits
    /\ CommitEmitter(EmitWorld(EmitterWorld), 1)

RemoveAllListeners ==
    CommitEmitter([EmitterWorld EXCEPT !.events = <<>>], 0)

NothingEmitted == [regs |-> <<>>, emits |-> 0]

\* new EventEmitter(), and the listener functions the caller has at hand
EmitterInit ==
    /\ events = <<>>
    /\ listeners \in [ListenerIds -> Behaviours]
    /\ emitted = NothingEmitted

EmitterIdle ==
    /\ events = <<>>
    /\ listeners = [l \in ListenerIds |-> "returns"]
    /\ emitted = NothingEmitted

EmitterNext ==
    \/ \E l \in ListenerIds : On(l)
    \/ \E l \in ListenerIds : Once(l)
    \/ \E l \in ListenerIds : Off(l)
    \/ Emit
    \/ RemoveAllListeners

\* ------------------------------------------------------------------------
\* memoizeAsync
\* ------------------------------------------------------------------------
\* JSON.stringify(args) of the argument lists used
MemoKeys == 1..MaxArgs
\* a Map without an entry for the key
NoEntry == 0
\* what fn does when invoked: it returns a promise or it throws
FnBehaviours == {"promise", "throws"}

\* the last invocation of fn for a key, NoEntry if there is none
LastInvocation(key) ==
    IF \E i \in 1..Len(invocations) : invocations[i].key = key
    THEN CHOOSE i \in 1..Len(invocations) :
            /\ invocations[i].key = key
            /\ \A j \in (i + 1)..Len(invocations) : invocations[j].key # key
    ELSE NoEntry
\* history of a call: what the last invocation for the key had come to
Previous(key) ==
    IF LastInvocation(key) = NoEntry THEN "none"
    ELSE LET i == invocations[LastInvocation(key)]
         IN IF i.state = "rejected" /\ ~i.resumed THEN "rejecting"
            ELSE i.state

\* the memoized function up to its await: a cached result or the pending
\* promise is returned, else fn is invoked and its promise stored
MemoCall(m, key, does) ==
    IF m.cache[key] # NoEntry THEN [memo |-> m, via |-> "cache"]
    ELSE IF m.pending[key] # NoEntry THEN [memo |-> m, via |-> "pending"]
    ELSE IF does = "throws" THEN [memo |-> m, via |-> "fn"]
    ELSE [memo |-> [m EXCEPT !.pending[key] = Len(invocations) + 1],
          via |-> "fn"]

\* the memoized function after its await, forgetting the result
AfterAwaitForgets(m, key, i, state) ==
    [m EXCEPT !.pending[key] = NoEntry]
\* the memoized function after its await of invocation i
AfterAwait(m, key, i, state) ==
    IF state = "fulfilled"
    THEN [m EXCEPT !.cache[key] = i, !.pending[key] = NoEntry]
    ELSE [m EXCEPT !.pending[key] = NoEntry]

\* memoized(...args), with what fn would do if it is invoked
CallMemoized(key, does) ==
    /\ Len(requests) < MaxCalls
    /\ LET c == MemoCall(memoized, key, does)
       IN /\ memoized' = c.memo
          /\ requests' = Append(requests,
                [key |-> key, via |-> c.via, previous |-> Previous(key)])
          /\ invocations' =
                IF c.via = "fn"
                THEN Append(invocations,
                        [key |-> key,
                         state |-> IF does = "throws" THEN "threw" ELSE "pending",
                         resumed |-> does = "throws"])
                ELSE invocations
    /\ UNCHANGED notMemo

\* the promise fn returned settles
FnSettles(i, state) ==
    /\ invocations[i].state = "pending"
    /\ invocations' = [invocations EXCEPT ![i].state = state]
    /\ UNCHANGED <<memoized, requests, notMemo>>

\* the call that invoked fn resumes after its await
Resume(i) ==
    /\ invocations[i].state \in {"fulfilled", "rejected"}
    /\ ~invocations[i].resumed
    /\ memoized' = AfterAwait(memoized, invocations[i].key, i,
                              invocations[i].state)
    /\ invocations' = [invocations EXCEPT ![i].resumed = TRUE]
    /\ UNCHANGED <<requests, notMemo>>

\* memoizeAsync(fn)
MemoInit ==
    /\ memoized = [cache |-> [k \in MemoKeys |-> NoEntry],
                   pending |-> [k \in MemoKeys |-> NoEntry]]
    /\ invocations = <<>>
    /\ requests = <<>>

MemoIdle == MemoInit

MemoNext ==
    \/ \E key \in MemoKeys : \E does \in FnBehaviours : CallMemoized(key, does)
    \/ \E i \in 1..Len(invocations) :
         \E state \in {"fulfilled", "rejected"} : FnSettles(i, state)
    \/ \E i \in 1..Len(invocations) : Resume(i)

\* ------------------------------------------------------------------------
\* mySetInterval, mySetIntervalAdvanced
\* ------------------------------------------------------------------------
Intervals == {"mySetInterval", "mySetIntervalAdvanced"}
\* what the callback does with the handle when it is called
CallbackDoes == {"nothing", "clear", "pause", "resume"}

\* a world: the closure, the armed timeouts and the history
IntervalWorld == [h |-> handle, timeouts |-> timeouts, ticks |-> ticks]

\* timeoutId = setTimeout(..., ms)
ArmTimeout(w, ms) ==
    LET id == w.ticks.ids + 1
    IN [w EXCEPT !.timeouts = @ \cup {[id |-> id, due |-> clock + ms]},
                 !.h.timeoutId = id,
                 !.ticks.ids = id]

\* clearTimeout(id): a fired or unknown id clears nothing
ClearTimeoutId(w, id) ==
    [w EXCEPT !.timeouts = {t \in @ : t.id # id}]

\* interval()
Interval(w) ==
    IF w.h.fn = "mySetInterval" THEN ArmTimeout(w, w.h.delay)
    ELSE IF w.h.isPaused THEN w
    ELSE ArmTimeout([w EXCEPT !.h.startTime = clock], w.h.remaining)

\* handle.clear()
HandleClear(w) ==
    LET w1 == ClearTimeoutId(w, w.h.timeoutId)
        w2 == IF w.h.fn = "mySetInterval" THEN w1
              ELSE [w1 EXCEPT !.h.timeoutId = NoTimer]
    IN [w2 EXCEPT !.ticks.cleared = TRUE]

\* handle.pause()
HandlePause(w) ==
    LET w1 == IF ~w.h.isPaused /\ w.h.timeoutId # NoTimer
              THEN [ClearTimeoutId(w, w.h.timeoutId) EXCEPT
                        !.h.isPaused = TRUE,
                        !.h.remaining = @ - (clock - w.h.startTime)]
              ELSE w
    IN [w1 EXCEPT !.ticks.paused = TRUE]

\* handle.resume()
HandleResume(w) ==
    LET w1 == IF w.h.isPaused
              THEN Interval([w EXCEPT !.h.isPaused = FALSE])
              ELSE w
    IN [w1 EXCEPT !.ticks.paused = FALSE]

\* one call of a method of the handle
HandleOp(w, op) ==
    CASE op = "clear" -> HandleClear(w)
      [] op = "pause" /\ w.h.fn = "mySetIntervalAdvanced" -> HandlePause(w)
      [] op = "resume" /\ w.h.fn = "mySetIntervalAdvanced" -> HandleResume(w)
      [] OTHER -> w

\* callback.apply(this, args), the callback doing op with the handle
Callback(w, op) ==
    LET w1 == [w EXCEPT !.ticks.calls = @ + 1,
                        !.ticks.late = @ + (IF w.ticks.cleared THEN 1 ELSE 0),
                        !.ticks.quiet = @ + (IF w.ticks.paused THEN 1 ELSE 0),
                        !.ticks.inside = @ \cup {op}]
    IN HandleOp(w1, op)

\* the function handed to setTimeout runs
TimeoutCallback(w, op) ==
    IF w.h.fn = "mySetInterval"
    THEN Interval([Callback(w, op) EXCEPT !.h.count = @ + 1])
    ELSE IF ~w.h.isPaused
         THEN Interval([Callback(w, op) EXCEPT !.h.count = @ + 1,
                                               !.h.remaining = w.h.delay])
         ELSE w

CommitInterval(w) ==
    /\ handle' = w.h
    /\ timeouts' = w.timeouts
    /\ ticks' = w.ticks
    /\ UNCHANGED notInterval

Due == {t \in timeouts : t.due <= clock}

\* a due timeout fires
TimeoutFires(t, op) ==
    /\ t \in Due
    /\ op \in {"nothing", "clear"} \/ handle.fn = "mySetIntervalAdvanced"
    /\ CommitInterval(TimeoutCallback(
            [IntervalWorld EXCEPT !.timeouts = @ \ {t}], op))
    /\ UNCHANGED clock

\* the code holding the handle calls one of its methods
HandleCalled(op) ==
    /\ Due = {}
    /\ ticks.outside < MaxHandleOps
    /\ op \in {"clear"} \/ handle.fn = "mySetIntervalAdvanced"
    /\ CommitInterval(
            [HandleOp(IntervalWorld, op) EXCEPT !.ticks.outside = @ + 1,
                                               !.ticks.called = @ \cup {op}])
    /\ UNCHANGED clock

\* time passes when nothing is due
ClockAdvances ==
    /\ Due = {}
    /\ clock < MaxClock
    /\ clock' = clock + 1
    /\ UNCHANGED <<handle, timeouts, ticks, notInterval>>

NoTicks ==
    [ids |-> 0, calls |-> 0, cleared |-> FALSE, paused |-> FALSE,
     late |-> 0, quiet |-> 0, outside |-> 0, inside |-> {}, called |-> {}]

\* the closure when the function starts
IntervalClosure(f, delay) ==
    [fn |-> f, delay |-> delay, timeoutId |-> NoTimer, count |-> 0,
     isPaused |-> FALSE, startTime |-> 0, remaining |-> delay]

\* mySetInterval(callback, delay) / mySetIntervalAdvanced(callback, delay)
\* has returned the handle
IntervalInit ==
    /\ clock = 0
    /\ \E f \in Intervals : \E delay \in 1..MaxPeriod :
         LET w == Interval([h |-> IntervalClosure(f, delay), timeouts |-> {},
                            ticks |-> NoTicks])
         IN handle = w.h /\ timeouts = w.timeouts /\ ticks = w.ticks

IntervalIdle ==
    /\ clock = 0
    /\ handle = IntervalClosure("none", 1)
    /\ timeouts = {}
    /\ ticks = NoTicks

IntervalNext ==
    \/ \E t \in timeouts : \E op \in CallbackDoes : TimeoutFires(t, op)
    \/ \E op \in {"clear", "pause", "resume"} : HandleCalled(op)
    \/ ClockAdvances

\* the smaller utilities, not in use
ExtrasIdle == RaceIdle /\ CacheIdle /\ EmitterIdle /\ MemoIdle /\ IntervalIdle

PromiseSpecInit ==
    PromiseInit /\ SchedIdle /\ EquivIdle /\ RateIdle /\ RetryIdle
        /\ ExtrasIdle
PromiseSpec ==
    /\ PromiseSpecInit
    /\ [][PromiseNext]_vars

PromiseSettledSpec ==
    /\ PromiseSpecInit
    /\ [][PromiseSettledNext]_vars

PromiseChainSpec ==
    /\ PromiseSpecInit
    /\ [][PromiseChainNext]_vars

\* the host runs every timer callback that is due
PromiseFairSpec ==
    /\ PromiseSpec
    /\ WF_vars(FireTimer)

SchedSpecInit ==
    SchedInit /\ PromiseIdle /\ EquivIdle /\ RateIdle /\ RetryIdle
        /\ ExtrasIdle
SchedSpec ==
    /\ SchedSpecInit
    /\ [][SchedNext]_vars

EquivSpecInit ==
    EquivInit /\ PromiseIdle /\ RateIdle /\ RetryIdle /\ ExtrasIdle
EquivSpec ==
    /\ EquivSpecInit
    /\ [][EquivNext]_vars

RateSpecInit ==
    RateInit /\ PromiseIdle /\ SchedIdle /\ EquivIdle /\ RetryIdle
        /\ ExtrasIdle
RateSpec ==
    /\ RateSpecInit
    /\ [][RateNext]_vars

RetrySpecInit ==
    RetryInit /\ PromiseIdle /\ SchedIdle /\ EquivIdle /\ RateIdle
        /\ ExtrasIdle
RetrySpec ==
    /\ RetrySpecInit
    /\ [][RetryNext]_vars

\* every component but the smaller utilities, not in use
CoreIdle == PromiseIdle /\ SchedIdle /\ EquivIdle /\ RateIdle /\ RetryIdle

RaceSpecInit == RaceInit /\ CoreIdle /\ CacheIdle /\ EmitterIdle /\ MemoIdle /\ IntervalIdle
RaceSpec ==
    /\ RaceSpecInit
    /\ [][RaceNext]_vars

CacheSpecInit == CacheInit /\ CoreIdle /\ RaceIdle /\ EmitterIdle /\ MemoIdle /\ IntervalIdle
CacheSpec ==
    /\ CacheSpecInit
    /\ [][CacheNext]_vars

EmitterSpecInit == EmitterInit /\ CoreIdle /\ RaceIdle /\ CacheIdle /\ MemoIdle /\ IntervalIdle
EmitterSpec ==
    /\ EmitterSpecInit
    /\ [][EmitterNext]_vars

MemoSpecInit == MemoInit /\ CoreIdle /\ RaceIdle /\ CacheIdle /\ EmitterIdle /\ IntervalIdle
MemoSpec ==
    /\ MemoSpecInit
    /\ [][MemoNext]_vars

IntervalSpecInit ==
    IntervalInit /\ CoreIdle /\ RaceIdle /\ CacheIdle /\ EmitterIdle /\ MemoIdle
IntervalSpec ==
    /\ IntervalSpecInit
    /\ [][IntervalNext]_vars

\* every task promise that is in flight eventually settles, and a call
\* that was made runs
SchedFairSpec ==
    /\ SchedSpec
    /\ WF_vars(SchedNext)

\* ------------------------------------------------------------------------
\* Properties of MyPromise
\* ------------------------------------------------------------------------
All == 1..Len(promises)
\* the continuations of a then call are queued and have not run yet
Queued(p) == \E i \in 1..Len(timers) : timers[i].p2 = p
\* then was called while its promise was still pending
RegisteredPending(p) ==
    /\ promises[p].src # 0
    /\ \E i \in 1..Len(promises[promises[p].src].onFulfilledCallbacks) :
          promises[promises[p].src].onFulfilledCallbacks[i].p2 = p

C1_FirstCallWins ==
    \A p \in Roots :
        LET P == promises[p]
        IN /\ (P.first.side = "none") <=> (P.state = "pending")
           /\ P.first.side = "F" =>
                 P.state = "fulfilled" /\ P.value = P.first.arg
           /\ P.first.side = "R" =>
                 P.state = "rejected" /\ P.reason = P.first.arg
C1_RunsOnce ==
    \A p \in All :
        LET P == promises[p]
        IN P.src # 0 =>
             LET S == promises[P.src]
             IN /\ P.calls <= 1
                /\ P.calls = 1 =>
                      /\ S.state # "pending"
                      /\ (P.callSide = "F") <=> (S.state = "fulfilled")
                      /\ P.callArg = IF S.state = "fulfilled" THEN S.value
                                     ELSE S.reason
                /\ (S.state # "pending" /\ ~Queued(p)) => P.calls = 1
                /\ (S.state = "pending") => P.calls = 0
C1_Frozen ==
    \A p \in All :
        promises[p].state # "pending" =>
            /\ promises'[p].state = promises[p].state
            /\ promises'[p].value = promises[p].value
            /\ promises'[p].reason = promises[p].reason
\* C1: a MyPromise leaves 'pending' at most once and is frozen afterwards:
\* its value/reason is that of the first resolve/reject call, later calls
\* change nothing, and the continuation of every then call runs exactly
\* once (at most once ever, once when nothing is queued for it any more),
\* with the first outcome.
C1_SingleSettlement ==
    /\ [](C1_FirstCallWins /\ C1_RunsOnce)
    /\ [][C1_Frozen]_vars
\* a promise settled by the first of several executor calls, whose
\* continuation has run
C1_Witness ==
    \E p \in Roots : \E q \in All :
        /\ promises[p].first.n = 2
        /\ promises[q].src = p
        /\ promises[q].calls = 1

\* C2: no continuation runs inside a resolve, reject or then call: each
\* is invoked from a timer task, with none of those frames on the stack.
C2_ContinuationDeferred ==
    \A p \in All :
        /\ ~promises[p].callSync
        /\ (promises[p].src # 0 /\ promises[p].calls = 0
               /\ promises[promises[p].src].state # "pending") => Queued(p)
\* two continuations of one promise have run, one registered before the
\* promise settled and one after
C2_Witness ==
    \E p, q \in All :
        /\ promises[p].src # 0
        /\ promises[p].src = promises[q].src
        /\ promises[p].calls = 1 /\ promises[q].calls = 1
        /\ RegisteredPending(p) /\ ~RegisteredPending(q)

\* the promise p was settled with: the argument of the first resolve call
\* or the promise returned by the then handler (0 when there is none)
Inner(p) ==
    IF promises[p].src = 0
    THEN IF promises[p].first.side = "F" /\ promises[p].first.arg.t = "promise"
         THEN promises[p].first.arg.id ELSE 0
    ELSE promises[p].adopts
SameOutcome(p, q) ==
    /\ promises[p].state = promises[q].state
    /\ promises[p].value = promises[q].value
    /\ promises[p].reason = promises[q].reason
\* C3: a MyPromise settled with another MyPromise, through the executor's
\* resolve or through a then handler's return value, adopts it: once
\* settled it has the inner promise's outcome, and it is never fulfilled
\* with a promise object as its value.
C3_Adoption ==
    \A p \in All :
        /\ promises[p].state = "fulfilled" => promises[p].value.t # "promise"
        /\ (Inner(p) # 0 /\ promises[p].state # "pending") =>
               SameOutcome(p, Inner(p))

\* following the adoptions from p leads to q in at most n steps
RECURSIVE Adopts(_, _, _)
Adopts(p, q, n) ==
    /\ n > 0
    /\ promises[p].adopts # 0
    /\ \/ promises[p].adopts = q
       \/ Adopts(promises[p].adopts, q, n - 1)
InCycle(p) == Adopts(p, p, Len(promises))
\* the onFulfilled handler of the then call that produced p has run and
\* returned p itself
ReturnedItself(p) ==
    /\ promises[p].calls = 1
    /\ promises[p].callSide = "F"
    /\ promises[p].onFulfilled = Handler("returnPromise", 0)
C13_ExecutorThrow ==
    \A p \in All :
        LET P == promises[p]
            e == P.executor
        IN /\ e.call = "resolve" =>
                 P.state = "fulfilled" /\ P.value = e.arg
           /\ e.call = "reject" =>
                 P.state = "rejected" /\ P.reason = e.arg
           /\ (e.call = "none" /\ e.throws # Undefined) =>
                 P.state = "rejected" /\ P.reason = e.throws
\* an executor resolved its promise and threw, and a continuation of the
\* promise has run
C13_Witness ==
    \E p, q \in All :
        /\ promises[p].executor.call = "resolve"
        /\ promises[p].executor.throws # Undefined
        /\ promises[q].src = p
        /\ promises[q].calls = 1

\* the handler the continuation of the then call that produced p invoked
UsedHandler(p) ==
    IF promises[p].callSide = "F" THEN promises[p].onFulfilled
    ELSE promises[p].onRejected
\* C14: when then was called without a function for the side its promise
\* settled on, the promise then returned gets the same outcome: the same
\* value, or the identical reason (which so reaches the first catch down
\* the chain unchanged).
C14_PassThrough ==
    \A p \in All :
        (promises[p].src # 0 /\ promises[p].calls = 1
            /\ UsedHandler(p).kind = "none") =>
                SameOutcome(p, promises[p].src)

\* C15: once the handler of a then call has run, the promise then returned
\* is rejected with what the handler threw, or settled from what it
\* returned, on the onRejected side as on the onFulfilled side: fulfilled
\* with a plain value, rejected for the promise itself, and following a
\* promise that was returned.
C15_HandlerOutcome ==
    \A p \in All :
        (promises[p].src # 0 /\ promises[p].calls = 1) =>
            LET P == promises[p]
                h == UsedHandler(p)
            IN /\ h.kind = "throw" =>
                     P.state = "rejected" /\ P.reason = Plain("h")
               /\ h.kind = "return" =>
                     P.state = "fulfilled" /\ P.value = Plain("h")
               /\ (h.kind = "returnPromise" /\ h.arg = 0) =>
                     P.state = "rejected" /\ P.reason = ChainingCycle
               /\ (h.kind = "returnPromise" /\ h.arg # 0) =>
                     IF P.adopts = 0
                     THEN P.state = "fulfilled" /\ P.value = Undefined
                     ELSE /\ P.state # "pending" => SameOutcome(p, P.adopts)
                          /\ (promises[P.adopts].state # "pending"
                                 /\ timers = <<>>) => P.state # "pending"
\* a rejection handler returned a plain value and the chain is fulfilled
C15_Witness ==
    \E p \in All :
        /\ promises[p].calls = 1
        /\ promises[p].callSide = "R"
        /\ promises[p].onRejected.kind = "return"
        /\ promises[p].state = "fulfilled"

\* then was called on the source of p when it had settled
Late(p) == promises[p].src # 0 /\ ~RegisteredPending(p)
\* C16: a continuation registered after its promise settled is queued,
\* runs at most once, with the outcome the promise has, and does run when
\* the host runs the timer callbacks that are due.
C16_LateContinuationRuns ==
    /\ [](\A p \in All :
            Late(p) =>
                LET S == promises[promises[p].src]
                IN /\ promises[p].calls <= 1
                   /\ promises[p].calls = 0 => Queued(p)
                   /\ promises[p].calls = 1 =>
                         /\ (promises[p].callSide = "F") <=>
                                (S.state = "fulfilled")
                         /\ promises[p].callArg =
                                IF S.state = "fulfilled" THEN S.value
                                ELSE S.reason)
    \* again and again every one registered so far has run
    /\ []<>(\A p \in All : Late(p) => promises[p].calls = 1)
\* a continuation registered after settlement has run, on a promise that
\* also had one registered before
C16_Witness ==
    \E p, q \in All :
        /\ Late(p) /\ promises[p].calls = 1
        /\ promises[q].src = promises[p].src
        /\ RegisteredPending(q)

\* C17: onFinally runs once whether the promise fulfils or rejects; when
\* all scheduled work has run the promise finally returned has the
\* outcome of the original promise, or is rejected with onFinally's
\* failure if onFinally threw or returned a promise that rejects.
C17_Finally ==
    \A p \in All :
        promises[p].onFulfilled.kind = "finally" =>
            LET P == promises[p]
                S == promises[P.src]
            IN /\ P.calls <= 1
               /\ (S.state # "pending" /\ timers = <<>>) =>
                     /\ P.calls = 1
                     /\ IF OnFinally[P.onFulfilled.arg] = "return"
                        THEN SameOutcome(p, P.src)
                        ELSE P.state = "rejected" /\ P.reason = Plain("f")

\* C18: MyPromise.resolve returns its argument when that is a MyPromise
\* and otherwise a new promise already fulfilled with it; MyPromise.reject
\* returns a new promise already rejected with its argument.
C18_StaticResolve ==
    /\ returned.fn = "resolve" =>
          IF returned.arg.t = "promise" THEN returned.x = returned.arg
          ELSE /\ returned.x.t = "promise"
               /\ promises[returned.x.id].state = "fulfilled"
               /\ promises[returned.x.id].value = returned.arg
    /\ returned.fn = "reject" =>
          /\ returned.x.t = "promise"
          /\ promises[returned.x.id].state = "rejected"
          /\ promises[returned.x.id].reason = returned.arg
\* MyPromise.resolve was handed a promise that then had produced
C18_Witness ==
    /\ returned.fn = "resolve"
    /\ returned.arg.t = "promise"
    /\ promises[returned.arg.id].src # 0

\* ------------------------------------------------------------------------
\* Properties of the schedulers
\* ------------------------------------------------------------------------
TaskIds == 1..N
InFlight == Cardinality({i \in TaskIds : tasks[i].state = "running"})
SettledTasks == {i \in TaskIds : tasks[i].state \in {"fulfilled", "rejected"}}
RejectedTasks == {i \in TaskIds : tasks[i].state = "rejected"}
\* the first task whose promise rejected
FirstRejected ==
    history.order[CHOOSE j \in 1..Len(history.order) :
        /\ history.order[j] \in RejectedTasks
        /\ \A l \in 1..(j - 1) : history.order[l] \notin RejectedTasks]

\* C5: in the worker pools the number of tasks started and not yet settled
\* never exceeds the limit.
C5_ConcurrencyBound == fn \in WorkerPools => InFlight <= limit
\* a saturated pool with work left, after a task has completed
C5_Witness ==
    /\ fn \in WorkerPools
    /\ InFlight = limit
    /\ limit >= 2
    /\ limit < N
    /\ history.order # <<>>

\* what a worker pool records for task i once it has settled
Recorded(i) ==
    IF tasks[i].state = "fulfilled" \/ fn = "mapLimitOptimized"
    THEN Raw(tasks[i].x)
    ELSE Raw(ErrorObject(tasks[i].x))
\* C6: the array a worker pool returns has one entry per task, and entry i
\* is the result of task i whatever the order of completion.
C6_OrderPreserved ==
    (fn \in WorkerPools /\ aggregate.state = "fulfilled") =>
        /\ Len(aggregate.value) = N
        /\ \A i \in TaskIds :
              /\ i \in SettledTasks
              /\ aggregate.value[i] = Recorded(i)
\* an array returned after the tasks completed out of index order, with
\* fewer workers than tasks
C6_Witness ==
    /\ fn \in WorkerPools
    /\ aggregate.state = "fulfilled"
    /\ limit < N
    /\ \E j \in 1..(Len(history.order) - 1) :
          history.order[j] > history.order[j + 1]

\* C7: no task is started twice, and the slot of a task whose outcome the
\* pool records is written exactly once.
C7_WrittenOnce ==
    fn \in WorkerPools =>
        \A i \in TaskIds :
            /\ history.starts[i] <= 1
            /\ history.writes[i] <= 1
            /\ (tasks[i].state = "fulfilled"
                  \/ (tasks[i].state = "rejected"
                        /\ fn = "parallelLimitOptimized")) =>
                   history.writes[i] = 1

FailFast == {"mapLimitOptimized", "myAll"}
\* C8: in the fail-fast variants the aggregate is rejected exactly when a
\* task has rejected, at once (other tasks may be running or not started),
\* with the error of the first task that rejected, and exposes no results.
C8_FailFast ==
    (fn \in FailFast /\ aggregate.state # "notCalled") =>
        /\ (aggregate.state = "rejected") <=> (RejectedTasks # {})
        /\ RejectedTasks # {} =>
              /\ aggregate.error = tasks[FirstRejected].x
              /\ aggregate.value = <<>>
\* rejected while a task is still running and another was never started,
\* after a second task has rejected too
C8_Witness ==
    /\ fn = "mapLimitOptimized"
    /\ aggregate.state = "rejected"
    /\ Cardinality(RejectedTasks) >= 2
    /\ \E i \in TaskIds : tasks[i].state = "running"

SettleAll == {"parallelLimitOptimized", "myAllSettled"}
\* C9: in the settle-all variants the aggregate never rejects, and once
\* every task has settled it is fulfilled with N outcomes in index order.
C9_SettleAll ==
    fn \in SettleAll =>
        /\ aggregate.state # "rejected"
        /\ (aggregate.state # "notCalled" /\ SettledTasks = TaskIds) =>
              /\ aggregate.state = "fulfilled"
              /\ Len(aggregate.value) = N

AggregateSettled == aggregate.state \in {"fulfilled", "rejected"}
\* C10: when every task promise in flight eventually settles, the promise
\* of a worker pool eventually settles, and it is not fulfilled before the
\* outcome of every task is in the results array.
C10_Settles ==
    /\ (fn \in WorkerPools) ~> AggregateSettled
    /\ [](fn \in WorkerPools /\ aggregate.state = "fulfilled" =>
            \A i \in TaskIds :
                /\ i \in SettledTasks
                /\ history.writes[i] >= 1
                /\ results[i] # Hole)
\* a pool with fewer workers than tasks has fulfilled
C10_Witness ==
    /\ fn \in WorkerPools
    /\ aggregate.state = "fulfilled"
    /\ limit < N
    /\ N >= 2

\* C11: a worker pool called with an empty task list, whatever the limit,
\* is fulfilled by the call itself with an empty array; it starts no worker
\* and invokes no producer.
C11_EmptyList ==
    (fn \in WorkerPools /\ N = 0 /\ aggregate.state # "notCalled") =>
        /\ aggregate.state = "fulfilled"
        /\ aggregate.value = <<>>
        /\ workers = <<>>
        /\ iterator = 1
        /\ history.order = <<>>
        /\ DOMAIN history.starts = {}
\* parallelLimitOptimized was called with an empty list and a limit above 1
C11_Witness ==
    /\ fn = "parallelLimitOptimized"
    /\ N = 0
    /\ limit >= 2
    /\ aggregate.state = "fulfilled"

\* C12: a worker pool called on the same task list with the same per-task
\* outcomes settles the same way with a limit below the list's length as
\* with a limit that starts every task at once: both calls fulfil, with
\* the same array, or both reject.
C12_SameOutcome ==
    /\ (reference # NoReference /\ AggregateSettled) =>
          /\ aggregate.state = reference.state
          /\ aggregate.state = "fulfilled" =>
                aggregate.value = reference.value
    \* and the second call does settle: while it is pending a task runs
    /\ (reference # NoReference /\ ~AggregateSettled) => InFlight > 0
\* both calls of mapLimitOptimized fulfilled, the second with fewer
\* workers than tasks and tasks completing out of index order
C12_Witness ==
    /\ fn = "mapLimitOptimized"
    /\ reference.state = "fulfilled"
    /\ aggregate.state = "fulfilled"
    /\ N >= 3
    /\ limit >= 2
    /\ \E j \in 1..(Len(history.order) - 1) :
          history.order[j] > history.order[j + 1]

\* ------------------------------------------------------------------------
\* Properties of the rate-limiting wrappers
\* ------------------------------------------------------------------------
Calls == {k \in 1..Len(log.ops) : log.ops[k].op = "call"}
\* debounce and debounceAdvanced with the options left at their defaults
DefaultTrailing ==
    \/ wrapper.fn = "debounce" /\ ~wrapper.immediate
    \/ /\ wrapper.fn = "debounceAdvanced"
       /\ ~wrapper.leading /\ wrapper.trailing /\ wrapper.maxWait = Unset
\* call k is the last of its burst: no call follows it within the delay
BurstEnd(k) ==
    \/ k = Len(log.ops)
    \/ log.ops[k + 1].time - log.ops[k].time >= wrapper.delay
\* the delay after call k has elapsed and the timers due then have run
Elapsed(k) ==
    \/ log.ops[k].time + wrapper.delay < now
    \/ (log.ops[k].time + wrapper.delay = now /\ ~TimerDue)
Bursts == {k \in Calls : BurstEnd(k) /\ Elapsed(k)}
\* the last call of the j-th burst
Burst(j) == CHOOSE k \in Bursts : Cardinality({e \in Bursts : e <= k}) = j
\* C19: with the default options, and no cancel or flush, func is invoked
\* once per burst of calls less than delay apart: from a timer, not before
\* delay has elapsed after the last call of the burst, and with the
\* arguments of that call.
C19_OncePerBurst ==
    (DefaultTrailing /\ Calls = 1..Len(log.ops)) =>
        /\ Len(log.invoked) = Cardinality(Bursts)
        /\ \A j \in 1..Len(log.invoked) :
              /\ log.invoked[j].args = Burst(j)
              /\ log.invoked[j].time >= log.ops[Burst(j)].time + wrapper.delay
              /\ log.invoked[j].ctx = "timer"
\* debounceAdvanced has served two bursts, the first of calls made at
\* different times
C19_Witness ==
    /\ DefaultTrailing
    /\ wrapper.fn = "debounceAdvanced"
    /\ Calls = 1..Len(log.ops)
    /\ Len(log.invoked) = 2
    /\ log.invoked[1].args >= 2
    /\ log.ops[1].time < log.ops[2].time

\* C20: any two invocations of func by a throttle wrapper are at least
\* delay apart, whatever the options and whatever calls, timer expiries
\* and cancel() calls occur.
C20_OncePerWindow ==
    wrapper.fn \in Throttles =>
        \A j \in 1..(Len(log.invoked) - 1) :
            log.invoked[j + 1].time - log.invoked[j].time >= wrapper.delay

\* invocation j of func happened before operation k of the caller
Before(j, k) == log.invoked[j].op < k
\* func has been quiet for delay when operation k is made, and so has the
\* caller: operation k opens a window
OpensWindow(k) ==
    /\ k \in Calls
    /\ \A j \in 1..Len(log.invoked) :
          Before(j, k) => log.invoked[j].time + wrapper.delay <= log.ops[k].time
    /\ \A e \in 1..(k - 1) : log.ops[e].time + wrapper.delay <= log.ops[k].time
\* call k invoked func synchronously
InvokedInside(k) ==
    \E j \in 1..Len(log.invoked) :
        log.invoked[j].op = k /\ log.invoked[j].ctx = "call"
\* C21: a throttle wrapper with leading = true invokes func inside the
\* first call of every window; with leading = false func is not invoked
\* from the first call of a window until delay has elapsed after that call.
C21_Leading ==
    wrapper.fn \in Throttles =>
        \A k \in 1..Len(log.ops) : OpensWindow(k) =>
            IF wrapper.leading
            THEN InvokedInside(k)
            ELSE \A j \in 1..Len(log.invoked) :
                    ~Before(j, k) =>
                        log.invoked[j].time >= log.ops[k].time + wrapper.delay

\* the invocations of func made before operation k
Ran(k) == {j \in 1..Len(log.invoked) : Before(j, k)}
\* the time of the last of them
LastRun(k) == log.invoked[Cardinality(Ran(k))].time
\* call k falls inside the window that the last invocation of func opened,
\* and does not invoke func
Suppressed(k) ==
    /\ k \in Calls
    /\ ~InvokedInside(k)
    /\ Ran(k) # {}
    /\ log.ops[k].time < LastRun(k) + wrapper.delay
WindowEnd(k) == LastRun(k) + wrapper.delay
\* the window of call k has ended and the timers due then have run
Over(k) ==
    \/ WindowEnd(k) < now
    \/ (WindowEnd(k) = now /\ ~TimerDue)
\* C22: a throttle wrapper with trailing = true that suppressed a call
\* inside a window invokes func from a timer when that window ends, once,
\* not earlier, and whether or not another call is made; with
\* trailing = false it invokes func only inside calls.  (Histories of calls
\* only.)
C22_Trailing ==
    (wrapper.fn \in Throttles /\ Calls = 1..Len(log.ops)) =>
        IF wrapper.trailing
        THEN \A k \in 1..Len(log.ops) : (Suppressed(k) /\ Over(k)) =>
                /\ Cardinality({j \in 1..Len(log.invoked) :
                                    /\ ~Before(j, k)
                                    /\ log.invoked[j].ctx = "timer"
                                    /\ log.invoked[j].time = WindowEnd(k)}) = 1
                /\ \A j \in 1..Len(log.invoked) :
                      ~Before(j, k) => log.invoked[j].time >= WindowEnd(k)
        ELSE \A j \in 1..Len(log.invoked) : log.invoked[j].ctx = "call"
\* throttleAdvanced ran func from a timer for two suppressed calls, and no
\* call was made after them
C22_Witness ==
    /\ wrapper.fn = "throttleAdvanced"
    /\ wrapper.trailing
    /\ Calls = 1..Len(log.ops)
    /\ Len(log.ops) = 3
    /\ Suppressed(2) /\ Suppressed(3) /\ Over(3)
    /\ log.invoked[Len(log.invoked)].ctx = "timer"
    /\ log.invoked[Len(log.invoked)].op = 3

\* C23: after cancel() on debounceAdvanced or throttleAdvanced, func is not
\* invoked until the wrapper is called again: every invocation that follows
\* a cancel() follows a later call of the wrapper.
C23_CancelDiscards ==
    wrapper.fn \in Advanced =>
        \A j \in 1..Len(log.invoked) : \A k \in 1..log.invoked[j].op :
            log.ops[k].op = "cancel" =>
                \E e \in (k + 1)..log.invoked[j].op : log.ops[e].op = "call"
\* a deferred invocation was pending when cancel() was called, and the
\* time it was due at has passed
C23_Witness ==
    /\ wrapper.fn \in Advanced
    /\ wrapper.trailing
    /\ Len(log.ops) = 3
    /\ log.ops[2].op = "call" /\ log.ops[3].op = "cancel"
    /\ log.ops[1].op = "call" /\ InvokedInside(1)
    /\ log.ops[2].time < log.ops[1].time + wrapper.delay
    /\ log.ops[3].time < log.ops[1].time + wrapper.delay
    /\ now > log.ops[2].time + wrapper.delay
    /\ Len(log.invoked) = 1

\* the last call of the wrapper made before operation f, 0 if there is none
LastCall(f) ==
    IF \E k \in 1..(f - 1) : log.ops[k].op = "call"
    THEN CHOOSE k \in 1..(f - 1) :
            /\ log.ops[k].op = "call"
            /\ \A e \in (k + 1)..(f - 1) : log.ops[e].op # "call"
    ELSE 0
\* a deferred call is pending when operation f is made: the last call has
\* not been invoked or cancelled and a timer is to invoke it
Deferred(f) ==
    /\ wrapper.trailing
    /\ LastCall(f) # 0
    /\ \A e \in LastCall(f)..(f - 1) : log.ops[e].op # "cancel"
    /\ \A j \in Ran(f) : log.invoked[j].op < LastCall(f)
\* the invocations of func made inside operation f
Inside(f) ==
    {j \in 1..Len(log.invoked) :
        log.invoked[j].op = f /\ log.invoked[j].ctx = log.ops[f].op}
\* C24: flush() on debounceAdvanced or throttleAdvanced with a deferred call
\* pending invokes func once, inside flush(), with the arguments of the
\* most recent call, and no timer invokes func for that call afterwards;
\* flush() with nothing pending invokes nothing.
C24_Flush ==
    wrapper.fn \in Advanced =>
        \A f \in 1..Len(log.ops) : log.ops[f].op = "flush" =>
            IF Deferred(f)
            THEN /\ Cardinality(Inside(f)) = 1
                 /\ \A j \in Inside(f) : log.invoked[j].args = LastCall(f)
                 /\ \A j \in 1..Len(log.invoked) :
                       (~Before(j, f) /\ j \notin Inside(f)) =>
                           log.invoked[j].args # LastCall(f)
            ELSE Inside(f) = {}

\* ------------------------------------------------------------------------
\* Properties of the retry functions
\* ------------------------------------------------------------------------
\* the producer has been invoked n times and has failed every time
AllFailed(n) ==
    /\ Len(trace.calls) = n
    /\ \A a \in 1..n : trace.calls[a] = "error"
\* the producer alone decides: shouldRetry always answers true, no attempt
\* is timed and the signal has not aborted
ProducerDecides ==
    /\ options.fn \in Retries
    /\ options.maxAttempts >= 1
    /\ options.shouldRetry = AlwaysRetry
    /\ options.timeout = 0
    /\ ~signal.aborted
\* what the claim says of the rejection error e
RetryTermination(e) ==
    ProducerDecides =>
        /\ Len(trace.calls) <= options.maxAttempts
        /\ \A a \in 1..(Len(trace.calls) - 1) : trace.calls[a] = "error"
        /\ AllFailed(options.maxAttempts) =>
              outcome = [state |-> "rejected", x |-> e]
        /\ outcome.state = "rejected" => AllFailed(options.maxAttempts)
        /\ \A k \in 0..(options.maxAttempts - 1) :
              (Len(trace.calls) > k /\ trace.calls[k + 1] = "value") =>
                  /\ Len(trace.calls) = k + 1
                  /\ outcome = [state |-> "fulfilled", x |-> Value(k + 1)]
        /\ outcome.state = "fulfilled" =>
              trace.calls[Len(trace.calls)] = "value"
\* C25: for maxAttempts >= 1 a producer that always fails is invoked
\* maxAttempts times and the call rejects with the error of the last
\* attempt; a producer that fails k < maxAttempts times and then succeeds
\* is invoked k + 1 times and the call fulfills with its value.
C25_Termination == RetryTermination(Error(options.maxAttempts))
\* C25 as amended: the same, but retry rejects with a new Error whose
\* message holds maxAttempts and the message of the last attempt's error.
C25_TerminationWrapped ==
    RetryTermination(IF options.fn = "retry"
                     THEN FailedAfter(options.maxAttempts,
                                      Error(options.maxAttempts))
                     ELSE Error(options.maxAttempts))
\* retry has given up after three failed attempts
C25_Witness ==
    /\ ProducerDecides
    /\ options.fn = "retry"
    /\ AllFailed(3)
    /\ outcome.state = "rejected"

\* b to the power n
RECURSIVE Pow(_, _)
Pow(b, n) == IF n = 0 THEN 1 ELSE b * Pow(b, n - 1)
\* C26: in retryWithBackoff and retryAdvanced the wait before attempt k + 1
\* is min(initialDelay * backoffFactor^(k-1), maxDelay), so that no wait
\* exceeds maxDelay, for every initialDelay, backoffFactor and maxDelay.
C26_Backoff ==
    options.fn \in Backoffs =>
        \A k \in 1..Len(trace.waits) :
            /\ trace.waits[k] =
                  Min(options.initialDelay * Pow(options.backoffFactor, k - 1),
                      options.maxDelay)
            /\ trace.waits[k] <= options.maxDelay

\* shouldRetry was asked after attempt a failed, and answered false
Refused(a) ==
    /\ a <= Len(trace.caught)
    /\ a < options.maxAttempts
    /\ ~options.shouldRetry[a]
\* C27: in retryWithCondition and retryAdvanced, once shouldRetry(error,
\* attempt) has returned false the call is rejected with that attempt's
\* error, no wait was started after the attempt and the producer is not
\* invoked again, although attempts remain.
C27_ShouldRetryFalse ==
    options.fn \in Conditionals =>
        \A a \in 1..MaxAttempts : Refused(a) =>
            /\ outcome = [state |-> "rejected", x |-> trace.caught[a]]
            /\ trace.caught[a] \in {Error(a), OperationTimeout}
            /\ Len(trace.caught) = a
            /\ Len(trace.waits) = a - 1
            /\ host.wait = 0
            /\ Len(trace.calls) = a
\* retryAdvanced retried after the first failure and was refused after the
\* second, with one attempt left
C27_Witness ==
    /\ options.fn = "retryAdvanced"
    /\ options.maxAttempts = 3
    /\ options.shouldRetry[1]
    /\ Refused(2)
    /\ outcome = [state |-> "rejected", x |-> Error(2)]

\* C28: in retryAdvanced, when the signal aborts while an inter-attempt
\* wait is pending, the call is rejected with the abort error in the same
\* step: the wait's timer is cleared, not awaited, and the producer is not
\* invoked again.
C28_AbortEndsWait ==
    (options.fn = "retryAdvanced" /\ signal.aborted /\ signal.pc = "wait") =>
        /\ outcome = [state |-> "rejected", x |-> OperationAborted]
        /\ host.wait = 0
        /\ Len(trace.calls) = signal.calls
        /\ Len(trace.waits) = signal.attempt
\* the signal aborted during the wait after the second failed attempt
C28_Witness ==
    /\ options.fn = "retryAdvanced"
    /\ signal.aborted
    /\ signal.pc = "wait"
    /\ signal.attempt = 2
    /\ outcome.state = "rejected"

\* the attempt that was in flight when the signal aborted has succeeded
\* before any timeout
SucceededAfterAbort ==
    /\ signal.calls <= Len(trace.calls)
    /\ trace.calls[signal.calls] = "value"
    /\ Len(trace.caught) < signal.attempt
\* C29: in retryAdvanced an abort while an attempt is in flight does not
\* cancel the attempt: if it succeeds the call fulfills with its value; and
\* once the signal has aborted the producer is not invoked again, however
\* the attempt in flight ends.
C29_AbortSparesAttempt ==
    (options.fn = "retryAdvanced" /\ signal.aborted) =>
        /\ Len(trace.calls) = signal.calls
        /\ signal.pc = "attempt" =>
              /\ signal.attempt \in host.inflight \/
                    trace.calls[signal.attempt] # "pending"
              /\ SucceededAfterAbort =>
                    outcome = [state |-> "fulfilled",
                               x |-> Value(signal.attempt)]
\* the signal aborted during the first attempt, which then failed; the wait
\* ran to its end and the call was rejected without a second attempt
C29_Witness ==
    /\ options.fn = "retryAdvanced"
    /\ options.maxAttempts >= 2
    /\ signal.aborted
    /\ signal.pc = "attempt"
    /\ trace.calls = <<"error">>
    /\ trace.waits # <<>>
    /\ outcome = [state |-> "rejected", x |-> OperationAborted]

\* ------------------------------------------------------------------------
\* The workers of the pools
\* ------------------------------------------------------------------------
Called == aggregate.state # "notCalled"
AllStarted == \A i \in TaskIds : history.starts[i] >= 1
\* worker k has left its loop
Stopped(k) == workers[k].state \in {"done", "rejected"}
\* as long as no task has failed: the pool runs min(limit, N) workers and
\* none of them has stopped while an index is unclaimed
WorkersKeepClaiming ==
    (fn \in WorkerPools /\ Called /\ RejectedTasks = {}) =>
        /\ Len(workers) = Min(limit, N)
        /\ \A k \in 1..Len(workers) : Stopped(k) => iterator > N
\* C30: the worker pools start min(limit, tasks.length) workers; while no
\* task has failed no worker stops as long as an index is unclaimed, and
\* every task is eventually started unless a task fails.
C30_WorkersDrain ==
    /\ []WorkersKeepClaiming
    /\ (fn \in WorkerPools /\ Called) ~> (RejectedTasks # {} \/ AllStarted)

\* the workers that have thrown
RejectedWorkers == {k \in 1..Len(workers) : workers[k].state = "rejected"}
\* C31: in mapLimitOptimized a failed task stops the worker that ran it and
\* no other: every other worker is awaiting a running task, or has left
\* its loop after every task was started; and the aggregate stays rejected
\* with the first error whatever settles later.
C31_OthersContinue ==
    (fn = "mapLimitOptimized" /\ Called) =>
        /\ Cardinality(RejectedWorkers) = Cardinality(RejectedTasks)
        /\ \A k \in RejectedWorkers :
              \E i \in RejectedTasks : workers[k].error = tasks[i].x
        /\ \A k \in 1..Len(workers) :
              /\ workers[k].state = "done" => AllStarted
              /\ workers[k].state = "awaiting" =>
                    tasks[workers[k].index].state = "running"
              /\ workers[k].state \in {"done", "awaiting", "rejected"}
        /\ RejectedTasks # {} =>
              aggregate = [state |-> "rejected", value |-> <<>>,
                           error |-> tasks[FirstRejected].x]
\* the first of four tasks failed before anything else settled; the other
\* worker went on to run the rest, one of which failed too
C31_Witness ==
    /\ fn = "mapLimitOptimized"
    /\ limit = 2 /\ N = 4
    /\ SettledTasks = TaskIds
    /\ history.order[1] = 1
    /\ 1 \in RejectedTasks
    /\ Cardinality(RejectedTasks) = 2
    /\ aggregate.error = Error(1)

\* C38: a retry operation has at most one attempt of the producer in
\* flight: an attempt is started only after the promise of the attempt
\* before it has settled, in retryAdvanced with timeout > 0 too.
C38_OneInFlight ==
    options.fn \in Retries =>
        /\ Cardinality(host.inflight) <= 1
        /\ \A a \in 1..(Len(trace.calls) - 1) : trace.calls[a] # "pending"
\* C38 as amended: an attempt is started only after the attempt before it
\* has settled or, in retryAdvanced with timeout > 0, has been abandoned
\* by its timeout; with timeout 0 at most one attempt is in flight.
C38_OneAwaited ==
    options.fn \in Retries =>
        /\ options.timeout = 0 => Cardinality(host.inflight) <= 1
        /\ \A a \in 1..(Len(trace.calls) - 1) :
              \/ trace.calls[a] = "error"
              \/ /\ options.fn = "retryAdvanced" /\ options.timeout > 0
                 /\ trace.caught[a] = OperationTimeout
        /\ \A a \in host.inflight \ {Len(trace.calls)} :
              trace.caught[a] = OperationTimeout
\* the first attempt was abandoned by its timeout and is still in flight
\* while the second runs
C38_Witness ==
    /\ options.fn = "retryAdvanced"
    /\ options.timeout > 0
    /\ host.inflight = {1, 2}
    /\ trace.caught = <<OperationTimeout>>
    /\ frame.pc = "attempt"

\* the operations made after invocation j - 1 of func and before
\* invocation j
Since(j) ==
    ((IF j = 1 THEN 0 ELSE log.invoked[j - 1].op) + 1)..log.invoked[j].op
\* C39: a timer-driven invocation of func by throttle receives the
\* arguments of the call that armed the timer, the first call since func
\* last ran, whatever calls followed it; one by throttleAdvanced receives
\* the arguments of the most recent call.
C39_TrailingArguments ==
    wrapper.fn \in Throttles =>
        \A j \in 1..Len(log.invoked) : log.invoked[j].ctx = "timer" =>
            IF wrapper.fn = "throttle"
            THEN /\ log.invoked[j].args \in Since(j)
                 /\ \A k \in Since(j) : log.invoked[j].args <= k
            ELSE log.invoked[j].args = LastCall(log.invoked[j].op + 1)
\* throttle ran func from a timer with the arguments of the second call
\* after a third call had been made in the same window
C39_Witness ==
    /\ wrapper.fn = "throttle"
    /\ Len(log.invoked) = 2
    /\ log.invoked[2] = [time |-> log.invoked[1].time + wrapper.delay,
                         args |-> 2, ctx |-> "timer", op |-> 3]

\* ------------------------------------------------------------------------
\* Properties of Promise.myRace
\* ------------------------------------------------------------------------
\* C32: Promise.myRace on a non-empty array settles as the input that
\* settled first does, fulfilled or rejected (inputs settled before the
\* call count in array order); on an empty array it never settles.
C32_FirstSettledWins ==
    (raced.called /\ inputs # NotArray) =>
        /\ Len(inputs) = 0 => raced.state = "pending"
        /\ raced.state # "pending" =>
              /\ arrival # <<>>
              /\ raced.state = inputs[arrival[1]].state
              /\ raced.x = inputs[arrival[1]].x
        /\ (arrival # <<>> /\ microtasks = <<>>) => raced.state # "pending"

\* ------------------------------------------------------------------------
\* Properties of LRUCache
\* ------------------------------------------------------------------------
\* C33: an LRUCache built with capacity c never stores more than c
\* entries, whatever get, put, has and clear operations are made.
C33_SizeBound == Len(cache) <= capacity

\* C34: a put of a new key into a full cache evicts one entry, the least
\* recently used, a use being a successful get or a put (not a has); a put
\* of a key that is stored evicts nothing, and so does every other
\* operation but clear.
C34_EvictsLeastRecent ==
    /\ lastOp.op = "put" =>
          /\ lastOp.evicted =
                IF ~lastOp.existed /\ lastOp.full
                THEN {lastOp.lru} \ {NoKey} ELSE {}
          /\ MapHas(cache, lastOp.key)
    /\ lastOp.op \in {"get", "has"} =>
          /\ lastOp.evicted = {}
          /\ Len(cache) = lastOp.size
\* a put into a full cache of two has evicted the key stored last, because
\* the key stored first had been read since
C34_Witness ==
    /\ capacity = 2
    /\ lastOp.op = "put"
    /\ lastOp.full /\ ~lastOp.existed
    /\ lastOp.evicted = {2}
    /\ KeysOf(cache) = {1, 3}
    /\ recent = <<2, 1, 3>>

\* ------------------------------------------------------------------------
\* Properties of EventEmitter
\* ------------------------------------------------------------------------
\* C35: a listener registered with once(event, listener) is called at most
\* once through that registration, whatever emit calls are made, also when
\* the listener throws and when it calls emit for the same event itself.
C35_OnceAtMostOnce ==
    \A r \in 1..Len(emitted.regs) :
        emitted.regs[r].once => emitted.regs[r].invoked <= 1

\* ------------------------------------------------------------------------
\* Properties of memoizeAsync
\* ------------------------------------------------------------------------
\* C36: a call invokes fn only if fn was never invoked for its key or the
\* last invocation for the key failed; while that invocation is pending or
\* after it has fulfilled the call does not invoke fn, so a key has at most
\* one invocation that did not fail. A failure is not cached: the call
\* after a failed call invokes fn again.
C36_InvokedOncePerKey ==
    /\ \A c \in 1..Len(requests) :
          /\ requests[c].via = "fn" =>
                requests[c].previous \in {"none", "rejecting", "rejected", "threw"}
          /\ requests[c].previous \in {"none", "rejected", "threw"} =>
                requests[c].via = "fn"
          /\ requests[c].previous = "rejecting" => requests[c].via = "pending"
    /\ \A k \in MemoKeys :
          /\ Cardinality({i \in 1..Len(invocations) :
                    /\ invocations[i].key = k
                    /\ invocations[i].state \in {"pending", "fulfilled"}}) <= 1
          /\ memoized.cache[k] # NoEntry =>
                /\ invocations[memoized.cache[k]].key = k
                /\ invocations[memoized.cache[k]].state = "fulfilled"
\* the first call invoked fn, a call after a rejection invoked it again,
\* a call made while it was pending and a call made after it had fulfilled
\* did not
C36_Witness ==
    /\ Len(requests) = MaxCalls
    /\ \E a, b, c \in 1..Len(requests) :
          /\ a < b /\ b < c
          /\ requests[a].key = requests[b].key
          /\ requests[a].via = "fn" /\ requests[a].previous = "none"
          /\ requests[b].via = "pending"
          /\ requests[c].key = requests[a].key /\ requests[c].via = "cache"
    /\ \E c \in 1..Len(requests) :
          requests[c].via = "fn" /\ requests[c].previous = "rejected"

\* ------------------------------------------------------------------------
\* Properties of mySetInterval and mySetIntervalAdvanced
\* ------------------------------------------------------------------------
\* C37: once clear() has been called on the handle, from outside or from
\* inside the callback, the callback is not called again, whatever pause()
\* and resume() calls are made before or after; and the callback is not
\* called between a pause() and the next resume().
C37_ClearStops ==
    /\ ticks.late = 0
    /\ ticks.quiet = 0

====
